---- MODULE Spec2Model ----
(***************************************************************************)
(* State-machine model of the iced surface containers                      *)
(* (src/src/iced/iced_containers.rs), their input translator               *)
(* (src/src/iced/iced_input_handler.rs) and the container traits           *)
(* (src/src/containers.rs).                                                *)
(*                                                                         *)
(* One surface container is modelled.  Every protocol callback is one      *)
(* action that runs the whole handler: translator update, surface          *)
(* reconfiguration and the render pass it ends with.  The handler's        *)
(* outbound calls are logged in fx, the batches handed to the UI toolkit   *)
(* in batches.  The GPU layer (texture acquisition) and the UI toolkit     *)
(* (messages, mouse interaction) are external: their answers are inputs.   *)
(*                                                                         *)
(* Numbers: TLC integers are 32-bit signed.  An i32 is itself; a u32 is    *)
(* carried as the signed integer with the same 32 bits (see u32_le).       *)
(***************************************************************************)
EXTENDS Integers, Sequences, FiniteSets, TLC

VARIABLES
    kind,        \* which container wraps the surface state
    surface,     \* IcedSurfaceState (the container's field `surface`)
    panicked,    \* the process aborted in an `expect`
    pending,     \* frame callbacks requested from the compositor, not yet delivered
    inputsLeft,  \* device-input callbacks the environment may still deliver
    call,        \* the callback handled last: [op, args]
    fx,          \* outbound calls made by the last handler, in order
    batches,     \* event batches handed to the UI toolkit by the last handler
    pushed,      \* abstract events the translator queued in the last handler
    queuedCount, \* abstract events queued so far
    deliveredCount, \* abstract events handed to the UI toolkit so far
    application, \* the shm Application of common.rs: tracked windows, translator
    shared,      \* the Rc<RefCell<..>> a container is registered behind
    overflow_checks \* the build panics on an integer overflow, or it wraps

vars == <<kind, surface, panicked, pending, inputsLeft, call, fx, batches,
          pushed, queuedCount, deliveredCount,
          application, shared, overflow_checks>>

----------------------------------------------------------------------------
(* Bounds *)

MaxInputs == 2
MaxGeometryInputs == 1
MaxPending == 3
MaxValue == 1
MaxCalls == 2

\* how deep a handler may try to call back into its own container
MaxDepth == 2

----------------------------------------------------------------------------
(* Program constants *)

DefaultSize == 256
BTN_LEFT == 272
BTN_RIGHT == 273
BTN_MIDDLE == 274

----------------------------------------------------------------------------
(* Option<T> *)

None == <<>>
Some(v) == <<v>>
is_some(o) == o # <<>>
unwrap(o) == o[1]
map_or(o, default) == IF is_some(o) THEN unwrap(o) ELSE default

\* i32::max
max(a, b) == IF a >= b THEN a ELSE b

(* u32.  TLC integers are the 32-bit signed integers, so a u32 is carried  *)
(* as the signed integer with the same 32 bits: v itself below 2^31 and    *)
(* v - 2^32 from 2^31 on (u32::MAX is -1).  Order and multiplication are   *)
(* the unsigned ones.                                                      *)
u32_le(a, b) == IF (a >= 0) = (b >= 0) THEN a <= b ELSE a >= 0

\* u32::max
u32_max(a, b) == IF u32_le(b, a) THEN a ELSE b

\* the product a * b of 2 <= b < 2^16 and b <= a < 2^31, saturated at
\* u32::MAX; 2147483647 = q * b + r
saturating_mul_split(a, b, q, r) ==
    IF a <= q THEN a * b
    ELSE IF a > 2 * q + (2 * r + 1) \div b THEN -1
    ELSE IF r = b - 1 THEN (a - (q + 1) - (q + 1)) * b
    ELSE (a - 2 * q) * b - 2 * (r + 1)

\* u32::saturating_mul
saturating_mul(a, b) ==
    IF a = 0 \/ b = 0 THEN 0
    ELSE IF a = 1 THEN b
    ELSE IF b = 1 THEN a
    ELSE IF a < 0 \/ b < 0 THEN -1
    ELSE IF a >= 65536 /\ b >= 65536 THEN -1
    ELSE IF a >= b
         THEN saturating_mul_split(a, b, 2147483647 \div b, 2147483647 % b)
         ELSE saturating_mul_split(b, a, 2147483647 \div a, 2147483647 % a)

\* `x as u32` of an i32: the same 32 bits
as_u32(x) == x

\* `x as i32` of a u32: the same 32 bits
as_i32(x) == x

\* the four bytes of a 32-bit word, least significant first
u32_bytes(v) ==
    LET low == IF v < 0 THEN (v + 2147483647) + 1 ELSE v
    IN <<low % 256, (low \div 256) % 256, (low \div 65536) % 256,
         low \div 16777216 + (IF v < 0 THEN 128 ELSE 0)>>

\* the 32-bit word of four bytes
u32_of_bytes(b) ==
    LET low == b[1] + 256 * b[2] + 65536 * b[3] + 16777216 * (b[4] % 128)
    IN IF b[4] >= 128 THEN (low - 2147483647) - 1 ELSE low

\* long multiplication of two byte strings, least significant byte first:
\* the Len(a) + Len(b) bytes of the product
bytes_mul(a, b) ==
    LET RECURSIVE column(_, _)
        column(k, i) ==
            IF i > Len(a) THEN 0
            ELSE (IF k + 1 - i \in DOMAIN b THEN a[i] * b[k + 1 - i] ELSE 0)
                 + column(k, i + 1)
        RECURSIVE carried(_, _)
        carried(k, carry) ==
            IF k = Len(a) + Len(b) THEN <<carry>>
            ELSE LET sum == column(k, 1) + carry
                 IN <<sum % 256>> \o carried(k + 1, sum \div 256)
    IN carried(1, 0)

\* `a * b` of two i32 leaves the i32 range, for b > 0: a build with
\* overflow checks panics with "attempt to multiply with overflow"
mul_overflows(a, b) ==
    \/ a > 2147483647 \div b
    \/ a < -(2147483647 \div b) - (IF 2147483647 % b = b - 1 THEN 1 ELSE 0)

\* i32::wrapping_mul for b > 0: the low 32 bits of the product, what
\* `a * b` is in a build without overflow checks
wrapping_mul(a, b) ==
    IF mul_overflows(a, b)
    THEN u32_of_bytes(SubSeq(bytes_mul(u32_bytes(a), u32_bytes(b)), 1, 4))
    ELSE a * b

(* usize, 64 bits wide on the targets a Wayland client is built for: the  *)
(* value hi * 2^32 + lo is carried as [hi, lo], two u32 words.            *)
\* `x as usize` of a u32
as_usize(x) == [hi |-> 0, lo |-> x]

\* `x * y` of two usize: the low 64 bits of the product, and whether the
\* product leaves the usize range
usize_mul(x, y) ==
    IF /\ x.hi = 0 /\ y.hi = 0 /\ x.lo >= 0 /\ y.lo > 0
       /\ x.lo <= 2147483647 \div y.lo
    THEN [value |-> [hi |-> 0, lo |-> x.lo * y.lo], overflows |-> FALSE]
    ELSE LET product == bytes_mul(u32_bytes(x.lo) \o u32_bytes(x.hi),
                                  u32_bytes(y.lo) \o u32_bytes(y.hi))
         IN [value |-> [hi |-> u32_of_bytes(SubSeq(product, 5, 8)),
                        lo |-> u32_of_bytes(SubSeq(product, 1, 4))],
             overflows |-> \E k \in 9..16 : product[k] # 0]

(* f32.  An f32 holding an integer is carried as [m, e], the value          *)
(* m * 2^e with e the least exponent for which |m| <= 2^24: e is 0 and m   *)
(* the value itself up to 2^24 in magnitude.                               *)
pow2(n) ==
    CASE n = 0 -> 1 [] n = 1 -> 2 [] n = 2 -> 4 [] n = 3 -> 8
      [] n = 4 -> 16 [] n = 5 -> 32 [] n = 6 -> 64 [] n = 7 -> 128

\* the exponent of the 24-bit significand that holds 0 <= a < 2^31
f32_exponent(a) ==
    IF a <= 16777216 THEN 0 ELSE IF a <= 33554432 THEN 1
    ELSE IF a <= 67108864 THEN 2 ELSE IF a <= 134217728 THEN 3
    ELSE IF a <= 268435456 THEN 4 ELSE IF a <= 536870912 THEN 5
    ELSE IF a <= 1073741824 THEN 6 ELSE 7

\* a / p rounded to the nearest integer, ties to even
round_ties_even(a, p) ==
    IF 2 * (a % p) > p \/ (2 * (a % p) = p /\ (a \div p) % 2 = 1)
    THEN a \div p + 1 ELSE a \div p

f32_of(m, e) ==
    IF m = 8388608 /\ e > 0 THEN [m |-> 16777216, e |-> e - 1]
    ELSE [m |-> m, e |-> e]

f32_neg(f) == [f EXCEPT !.m = -@]

\* `x as f32` of an i32: the nearest f32, ties to even
as_f32(v) ==
    IF v = -2147483647 - 1 THEN [m |-> -16777216, e |-> 7]
    ELSE IF v < 0
    THEN f32_neg(f32_of(round_ties_even(-v, pow2(f32_exponent(-v))),
                        f32_exponent(-v)))
    ELSE f32_of(round_ties_even(v, pow2(f32_exponent(v))), f32_exponent(v))


\* Point::new(x as f32, y as f32) of a position given in f64.  The positions
\* of the model are whole numbers, which an f64 holds exactly; the cast
\* rounds them as it rounds an i32.
Point_new(position) == <<as_f32(position[1]), as_f32(position[2])>>

----------------------------------------------------------------------------
(* Inputs.  An input profile names the values the environment draws from; *)
(* the specifications below differ only in their profile.  A profile also *)
(* names the builds: the arithmetic that can overflow is in the configure *)
(* handlers of the Application alone, so only the profile that gives them *)
(* overflowing sizes draws both builds.                                   *)

Kinds == {"Window", "LayerSurface", "Popup", "Subsurface"}

\* WindowConfigure.new_size : (Option<NonZeroU32>, Option<NonZeroU32>)
WindowConfigures == {<<None, None>>, <<None, Some(300)>>, <<Some(300), Some(200)>>}
\* LayerSurfaceConfigure.new_size : (u32, u32)
LayerSurfaceConfigures == {<<0, 0>>, <<0, 300>>, <<300, 200>>}
\* PopupConfigure.width/height : i32
PopupConfigures == {<<0, 0>>, <<300, 0>>, <<300, 200>>}
\* SubsurfaceContainer::configure(width, height) : u32
SubsurfaceConfigures == {<<0, 0>>, <<300, 200>>}

ConfiguresOf(k) ==
    CASE k = "Window" -> WindowConfigures
      [] k = "LayerSurface" -> LayerSurfaceConfigures
      [] k = "Popup" -> PopupConfigures
      [] k = "Subsurface" -> SubsurfaceConfigures

\* AxisScroll { absolute: f64, discrete: i32 }
AxisScroll(absolute, discrete) == [absolute |-> absolute, discrete |-> discrete]
NoScroll == AxisScroll(0, 0)

PointerEvent(k, button, horizontal, vertical) ==
    [kind |-> k, position |-> <<10, 20>>, button |-> button,
     horizontal |-> horizontal, vertical |-> vertical]

PointerEvents ==
    { PointerEvent("Enter", 0, NoScroll, NoScroll),
      PointerEvent("Leave", 0, NoScroll, NoScroll),
      PointerEvent("Motion", 0, NoScroll, NoScroll),
      PointerEvent("Press", 272, NoScroll, NoScroll),
      PointerEvent("Press", 275, NoScroll, NoScroll),
      PointerEvent("Release", 272, NoScroll, NoScroll),
      PointerEvent("Axis", 0, NoScroll, NoScroll),
      PointerEvent("Axis", 0, NoScroll, AxisScroll(15, 1)) }

KeyEvents ==
    { [keysym |-> "c", utf8 |-> Some("c"), raw_code |-> 54],
      [keysym |-> "Return", utf8 |-> Some("\r"), raw_code |-> 36] }

WaylandModifiers ==
    { [ctrl |-> TRUE, shift |-> FALSE, alt |-> FALSE] }

\* What the UI toolkit answers to UserInterface::update
UiQuiet == [state |-> "Updated", mouse_interaction |-> "None", messages |-> <<>>]
UiPointer ==
    [state |-> "Updated", mouse_interaction |-> "Pointer",
     messages |-> <<"Increment">>]

\* several messages in one update, another interaction value
UiBurst ==
    [state |-> "Updated", mouse_interaction |-> "Text",
     messages |-> <<"Decrement", "Increment", "Increment">>]
\* State::Outdated carries no mouse interaction
UiOutdated == [state |-> "Outdated", mouse_interaction |-> "None", messages |-> <<>>]
\* the pointer shape again, without a message
UiHover == [state |-> "Updated", mouse_interaction |-> "Pointer", messages |-> <<>>]

UiOutcomes == {UiQuiet, UiPointer, UiBurst, UiOutdated, UiHover}

\* The environment of one handler run: does texture acquisition succeed,
\* and what does the toolkit answer
Env(ok, ui) == [ok |-> ok, ui |-> ui]

\* frame pacing and the input queue: every input callback, one geometry
Inputs ==
    [kinds |-> {"Window", "LayerSurface"},
     sizes |-> {<<256, 256>>},
     configures |-> [k \in Kinds |->
                        IF k = "Window" THEN {<<Some(300), Some(200)>>}
                        ELSE {<<300, 200>>}],
     scales |-> {2},
     keys |-> KeyEvents,
     modifiers |-> WaylandModifiers,
     pointers |-> PointerEvents,
     envs |-> {Env(FALSE, UiQuiet), Env(TRUE, UiQuiet), Env(TRUE, UiPointer)},
     max_inputs |-> MaxInputs,
     overflow_checks |-> {TRUE}]

\* frame pacing: one kind, one event per device, every toolkit outcome
PacingInputs ==
    [kinds |-> {"Window"},
     sizes |-> {<<256, 256>>},
     configures |-> [k \in Kinds |-> {<<Some(300), Some(200)>>}],
     scales |-> {2},
     keys |-> {[keysym |-> "c", utf8 |-> Some("c"), raw_code |-> 54]},
     modifiers |-> WaylandModifiers,
     pointers |-> {PointerEvent("Motion", 0, NoScroll, NoScroll),
                   PointerEvent("Press", 275, NoScroll, NoScroll)},
     envs |-> {Env(FALSE, UiQuiet), Env(TRUE, UiQuiet), Env(TRUE, UiPointer)},
     max_inputs |-> MaxInputs,
     overflow_checks |-> {TRUE}]

\* PopupConfigure.width/height : i32, negative values included
SignedPopupConfigures ==
    {<<-1, 200>>, <<300, -5>>, <<-1, -1>>, <<300, 200>>, <<120, 80>>}

\* popups with signed configure payloads
PopupInputs ==
    [kinds |-> {"Popup"},
     sizes |-> {<<256, 256>>},
     configures |-> [k \in Kinds |-> SignedPopupConfigures],
     scales |-> {1, 2},
     keys |-> {[keysym |-> "c", utf8 |-> Some("c"), raw_code |-> 54]},
     modifiers |-> WaylandModifiers,
     pointers |-> {PointerEvent("Motion", 0, NoScroll, NoScroll)},
     envs |-> {Env(FALSE, UiQuiet), Env(TRUE, UiQuiet)},
     max_inputs |-> MaxGeometryInputs,
     overflow_checks |-> {TRUE}]

\* toolkit: one kind, one pointer event, every toolkit outcome
ToolkitInputs ==
    [kinds |-> {"Window"},
     sizes |-> {<<256, 256>>},
     configures |-> [k \in Kinds |-> {<<Some(300), Some(200)>>}],
     scales |-> {2},
     keys |-> {[keysym |-> "c", utf8 |-> Some("c"), raw_code |-> 54]},
     modifiers |-> WaylandModifiers,
     pointers |-> {PointerEvent("Motion", 0, NoScroll, NoScroll)},
     envs |-> {Env(FALSE, UiQuiet)} \cup {Env(TRUE, ui) : ui \in UiOutcomes},
     max_inputs |-> MaxInputs,
     overflow_checks |-> {TRUE}]

\* KeyEvent { keysym, utf8, raw_code }: letters, a key whose text is a
\* control character, a key event without text, symbols outside the tables
KeyboardKeyEvents ==
    { [keysym |-> "c", utf8 |-> Some("c"), raw_code |-> 54],
      [keysym |-> "x", utf8 |-> Some("x"), raw_code |-> 53],
      [keysym |-> "v", utf8 |-> Some("v"), raw_code |-> 55],
      [keysym |-> "a", utf8 |-> Some("a"), raw_code |-> 38],
      [keysym |-> "a", utf8 |-> None, raw_code |-> 38],
      [keysym |-> "Return", utf8 |-> Some("\r"), raw_code |-> 36],
      [keysym |-> "dead_grave", utf8 |-> None, raw_code |-> 49],
      [keysym |-> "XF86_Battery", utf8 |-> None, raw_code |-> 244] }

KeyboardModifiers ==
    { [ctrl |-> TRUE, shift |-> FALSE, alt |-> FALSE],
      [ctrl |-> FALSE, shift |-> FALSE, alt |-> FALSE],
      [ctrl |-> FALSE, shift |-> TRUE, alt |-> TRUE] }

\* keyboard: one kind, every key event and modifier update
KeyboardInputs ==
    [kinds |-> {"Window"},
     sizes |-> {<<256, 256>>},
     configures |-> [k \in Kinds |-> {<<Some(300), Some(200)>>}],
     scales |-> {2},
     keys |-> KeyboardKeyEvents,
     modifiers |-> KeyboardModifiers,
     pointers |-> {PointerEvent("Motion", 0, NoScroll, NoScroll)},
     envs |-> {Env(FALSE, UiQuiet), Env(TRUE, UiQuiet)},
     max_inputs |-> MaxInputs,
     overflow_checks |-> {TRUE}]

\* axis sub-events: no movement, continuous movement only, discrete steps
\* on either axis, a discrete value beyond the 24 bits an f32 holds exactly
AxisEvents ==
    { PointerEvent("Axis", 0, NoScroll, NoScroll),
      PointerEvent("Axis", 0, AxisScroll(15, 0), AxisScroll(-30, 0)),
      PointerEvent("Axis", 0, NoScroll, AxisScroll(15, 1)),
      PointerEvent("Axis", 0, AxisScroll(-30, -2), NoScroll),
      PointerEvent("Axis", 0, AxisScroll(0, 3), AxisScroll(0, -1)),
      PointerEvent("Axis", 0, NoScroll, AxisScroll(0, 16777217)) }

\* button sub-events: the three recognized codes and others
ButtonCodes == {BTN_LEFT, BTN_RIGHT, BTN_MIDDLE, 275, 276, 0}

ButtonEvents ==
    { PointerEvent(k, b, NoScroll, NoScroll) :
        k \in {"Press", "Release"}, b \in ButtonCodes }

\* pointer: one kind, every axis and button sub-event
PointerInputs ==
    [kinds |-> {"Window"},
     sizes |-> {<<256, 256>>},
     configures |-> [k \in Kinds |-> {<<Some(300), Some(200)>>}],
     scales |-> {2},
     keys |-> {[keysym |-> "c", utf8 |-> Some("c"), raw_code |-> 54]},
     modifiers |-> WaylandModifiers,
     pointers |-> AxisEvents \cup ButtonEvents
                  \cup {PointerEvent("Motion", 0, NoScroll, NoScroll)},
     envs |-> {Env(FALSE, UiQuiet), Env(TRUE, UiQuiet)},
     max_inputs |-> MaxInputs,
     overflow_checks |-> {TRUE}]


\* a pointer sub-event at a position of its own
PointerEventAt(k, button, vertical, position) ==
    [PointerEvent(k, button, NoScroll, vertical) EXCEPT !.position = position]

\* the pointer position: every kind of sub-event, each at another position,
\* one of them beyond the whole numbers an f32 holds
CursorEvents ==
    { PointerEventAt("Enter", 0, NoScroll, <<10, 20>>),
      PointerEventAt("Motion", 0, NoScroll, <<30, 40>>),
      PointerEventAt("Motion", 0, NoScroll, <<16777217, 5>>),
      PointerEventAt("Leave", 0, NoScroll, <<50, 60>>),
      PointerEventAt("Press", BTN_LEFT, NoScroll, <<70, 80>>),
      PointerEventAt("Release", BTN_LEFT, NoScroll, <<71, 81>>),
      PointerEventAt("Axis", 0, AxisScroll(15, 1), <<90, 100>>) }

CursorInputs == [PointerInputs EXCEPT !.pointers = CursorEvents]

\* geometry: every kind, constructor size and configure payload, few inputs
GeometryInputs ==
    [kinds |-> Kinds,
     sizes |-> {<<256, 256>>, <<0, 0>>, <<0, 300>>},
     configures |-> [k \in Kinds |-> ConfiguresOf(k)],
     scales |-> {0, 1, 2},
     keys |-> {[keysym |-> "c", utf8 |-> Some("c"), raw_code |-> 54]},
     modifiers |-> WaylandModifiers,
     pointers |-> {PointerEvent("Motion", 0, NoScroll, NoScroll)},
     envs |-> {Env(FALSE, UiQuiet), Env(TRUE, UiQuiet)},
     max_inputs |-> MaxGeometryInputs,
     overflow_checks |-> {TRUE}]

----------------------------------------------------------------------------
(* Key / button mappers (iced_input_handler.rs) *)

keysym_to_iced_key(keysym) ==
    CASE keysym = "BackSpace" -> [named |-> "Backspace"]
      [] keysym = "Tab" -> [named |-> "Tab"]
      [] keysym = "Clear" -> [named |-> "Clear"]
      [] keysym = "Return" -> [named |-> "Enter"]
      [] keysym = "Pause" -> [named |-> "Pause"]
      [] keysym = "Scroll_Lock" -> [named |-> "ScrollLock"]
      [] keysym = "Sys_Req" -> [named |-> "PrintScreen"]
      [] keysym = "Escape" -> [named |-> "Escape"]
      [] keysym = "Delete" -> [named |-> "Delete"]
      [] keysym = "Multi_key" -> [named |-> "Compose"]
      [] keysym = "Codeinput" -> [named |-> "CodeInput"]
      [] keysym = "SingleCandidate" -> [named |-> "SingleCandidate"]
      [] keysym = "MultipleCandidate" -> [named |-> "AllCandidates"]
      [] keysym = "PreviousCandidate" -> [named |-> "PreviousCandidate"]
      [] keysym = "Kanji" -> [named |-> "KanjiMode"]
      [] keysym = "Muhenkan" -> [named |-> "NonConvert"]
      [] keysym = "Henkan_Mode" -> [named |-> "Convert"]
      [] keysym = "Romaji" -> [named |-> "Romaji"]
      [] keysym = "Hiragana" -> [named |-> "Hiragana"]
      [] keysym = "Hiragana_Katakana" -> [named |-> "HiraganaKatakana"]
      [] keysym = "Zenkaku" -> [named |-> "Zenkaku"]
      [] keysym = "Hankaku" -> [named |-> "Hankaku"]
      [] keysym = "Zenkaku_Hankaku" -> [named |-> "ZenkakuHankaku"]
      [] keysym = "Kana_Lock" -> [named |-> "KanaMode"]
      [] keysym = "Kana_Shift" -> [named |-> "KanaMode"]
      [] keysym = "Eisu_Shift" -> [named |-> "Alphanumeric"]
      [] keysym = "Eisu_toggle" -> [named |-> "Alphanumeric"]
      [] keysym = "Home" -> [named |-> "Home"]
      [] keysym = "Left" -> [named |-> "ArrowLeft"]
      [] keysym = "Up" -> [named |-> "ArrowUp"]
      [] keysym = "Right" -> [named |-> "ArrowRight"]
      [] keysym = "Down" -> [named |-> "ArrowDown"]
      [] keysym = "Page_Up" -> [named |-> "PageUp"]
      [] keysym = "Page_Down" -> [named |-> "PageDown"]
      [] keysym = "End" -> [named |-> "End"]
      [] keysym = "Select" -> [named |-> "Select"]
      [] keysym = "Print" -> [named |-> "PrintScreen"]
      [] keysym = "Execute" -> [named |-> "Execute"]
      [] keysym = "Insert" -> [named |-> "Insert"]
      [] keysym = "Undo" -> [named |-> "Undo"]
      [] keysym = "Redo" -> [named |-> "Redo"]
      [] keysym = "Menu" -> [named |-> "ContextMenu"]
      [] keysym = "Find" -> [named |-> "Find"]
      [] keysym = "Cancel" -> [named |-> "Cancel"]
      [] keysym = "Help" -> [named |-> "Help"]
      [] keysym = "Break" -> [named |-> "Pause"]
      [] keysym = "Mode_switch" -> [named |-> "ModeChange"]
      [] keysym = "Num_Lock" -> [named |-> "NumLock"]
      [] keysym = "KP_Tab" -> [named |-> "Tab"]
      [] keysym = "KP_Enter" -> [named |-> "Enter"]
      [] keysym = "KP_F1" -> [named |-> "F1"]
      [] keysym = "KP_F2" -> [named |-> "F2"]
      [] keysym = "KP_F3" -> [named |-> "F3"]
      [] keysym = "KP_F4" -> [named |-> "F4"]
      [] keysym = "KP_Home" -> [named |-> "Home"]
      [] keysym = "KP_Left" -> [named |-> "ArrowLeft"]
      [] keysym = "KP_Up" -> [named |-> "ArrowUp"]
      [] keysym = "KP_Right" -> [named |-> "ArrowRight"]
      [] keysym = "KP_Down" -> [named |-> "ArrowDown"]
      [] keysym = "KP_Page_Up" -> [named |-> "PageUp"]
      [] keysym = "KP_Page_Down" -> [named |-> "PageDown"]
      [] keysym = "KP_End" -> [named |-> "End"]
      [] keysym = "KP_Insert" -> [named |-> "Insert"]
      [] keysym = "KP_Delete" -> [named |-> "Delete"]
      [] keysym = "F1" -> [named |-> "F1"]
      [] keysym = "F2" -> [named |-> "F2"]
      [] keysym = "F3" -> [named |-> "F3"]
      [] keysym = "F4" -> [named |-> "F4"]
      [] keysym = "F5" -> [named |-> "F5"]
      [] keysym = "F6" -> [named |-> "F6"]
      [] keysym = "F7" -> [named |-> "F7"]
      [] keysym = "F8" -> [named |-> "F8"]
      [] keysym = "F9" -> [named |-> "F9"]
      [] keysym = "F10" -> [named |-> "F10"]
      [] keysym = "F11" -> [named |-> "F11"]
      [] keysym = "F12" -> [named |-> "F12"]
      [] keysym = "F13" -> [named |-> "F13"]
      [] keysym = "F14" -> [named |-> "F14"]
      [] keysym = "F15" -> [named |-> "F15"]
      [] keysym = "F16" -> [named |-> "F16"]
      [] keysym = "F17" -> [named |-> "F17"]
      [] keysym = "F18" -> [named |-> "F18"]
      [] keysym = "F19" -> [named |-> "F19"]
      [] keysym = "F20" -> [named |-> "F20"]
      [] keysym = "F21" -> [named |-> "F21"]
      [] keysym = "F22" -> [named |-> "F22"]
      [] keysym = "F23" -> [named |-> "F23"]
      [] keysym = "F24" -> [named |-> "F24"]
      [] keysym = "F25" -> [named |-> "F25"]
      [] keysym = "F26" -> [named |-> "F26"]
      [] keysym = "F27" -> [named |-> "F27"]
      [] keysym = "F28" -> [named |-> "F28"]
      [] keysym = "F29" -> [named |-> "F29"]
      [] keysym = "F30" -> [named |-> "F30"]
      [] keysym = "F31" -> [named |-> "F31"]
      [] keysym = "F32" -> [named |-> "F32"]
      [] keysym = "F33" -> [named |-> "F33"]
      [] keysym = "F34" -> [named |-> "F34"]
      [] keysym = "F35" -> [named |-> "F35"]
      [] keysym = "Shift_L" -> [named |-> "Shift"]
      [] keysym = "Shift_R" -> [named |-> "Shift"]
      [] keysym = "Control_L" -> [named |-> "Control"]
      [] keysym = "Control_R" -> [named |-> "Control"]
      [] keysym = "Caps_Lock" -> [named |-> "CapsLock"]
      [] keysym = "Alt_L" -> [named |-> "Alt"]
      [] keysym = "Alt_R" -> [named |-> "Alt"]
      [] keysym = "Super_L" -> [named |-> "Super"]
      [] keysym = "Super_R" -> [named |-> "Super"]
      [] keysym = "Hyper_L" -> [named |-> "Hyper"]
      [] keysym = "Hyper_R" -> [named |-> "Hyper"]
      [] keysym = "ISO_Level3_Shift" -> [named |-> "AltGraph"]
      [] keysym = "ISO_Level3_Latch" -> [named |-> "AltGraph"]
      [] keysym = "ISO_Level3_Lock" -> [named |-> "AltGraph"]
      [] keysym = "ISO_Next_Group" -> [named |-> "GroupNext"]
      [] keysym = "ISO_Prev_Group" -> [named |-> "GroupPrevious"]
      [] keysym = "ISO_First_Group" -> [named |-> "GroupFirst"]
      [] keysym = "ISO_Last_Group" -> [named |-> "GroupLast"]
      [] keysym = "ISO_Left_Tab" -> [named |-> "Tab"]
      [] keysym = "ISO_Enter" -> [named |-> "Enter"]
      [] keysym = "_3270_EraseEOF" -> [named |-> "EraseEof"]
      [] keysym = "_3270_Attn" -> [named |-> "Attn"]
      [] keysym = "_3270_Play" -> [named |-> "Play"]
      [] keysym = "_3270_ExSelect" -> [named |-> "ExSel"]
      [] keysym = "_3270_CursorSelect" -> [named |-> "CrSel"]
      [] keysym = "_3270_PrintScreen" -> [named |-> "PrintScreen"]
      [] keysym = "_3270_Enter" -> [named |-> "Enter"]
      [] keysym = "space" -> [named |-> "Space"]
      [] keysym = "XF86_MonBrightnessUp" -> [named |-> "BrightnessUp"]
      [] keysym = "XF86_MonBrightnessDown" -> [named |-> "BrightnessDown"]
      [] keysym = "XF86_Standby" -> [named |-> "Standby"]
      [] keysym = "XF86_AudioLowerVolume" -> [named |-> "AudioVolumeDown"]
      [] keysym = "XF86_AudioRaiseVolume" -> [named |-> "AudioVolumeUp"]
      [] keysym = "XF86_AudioPlay" -> [named |-> "MediaPlay"]
      [] keysym = "XF86_AudioStop" -> [named |-> "MediaStop"]
      [] keysym = "XF86_AudioPrev" -> [named |-> "MediaTrackPrevious"]
      [] keysym = "XF86_AudioNext" -> [named |-> "MediaTrackNext"]
      [] keysym = "XF86_HomePage" -> [named |-> "BrowserHome"]
      [] keysym = "XF86_Mail" -> [named |-> "LaunchMail"]
      [] keysym = "XF86_Search" -> [named |-> "BrowserSearch"]
      [] keysym = "XF86_AudioRecord" -> [named |-> "MediaRecord"]
      [] keysym = "XF86_Calculator" -> [named |-> "LaunchApplication2"]
      [] keysym = "XF86_Calendar" -> [named |-> "LaunchCalendar"]
      [] keysym = "XF86_PowerDown" -> [named |-> "Power"]
      [] keysym = "XF86_Back" -> [named |-> "BrowserBack"]
      [] keysym = "XF86_Forward" -> [named |-> "BrowserForward"]
      [] keysym = "XF86_Refresh" -> [named |-> "BrowserRefresh"]
      [] keysym = "XF86_PowerOff" -> [named |-> "Power"]
      [] keysym = "XF86_WakeUp" -> [named |-> "WakeUp"]
      [] keysym = "XF86_Eject" -> [named |-> "Eject"]
      [] keysym = "XF86_ScreenSaver" -> [named |-> "LaunchScreenSaver"]
      [] keysym = "XF86_WWW" -> [named |-> "LaunchWebBrowser"]
      [] keysym = "XF86_Sleep" -> [named |-> "Standby"]
      [] keysym = "XF86_Favorites" -> [named |-> "BrowserFavorites"]
      [] keysym = "XF86_AudioPause" -> [named |-> "MediaPause"]
      [] keysym = "XF86_MyComputer" -> [named |-> "LaunchApplication1"]
      [] keysym = "XF86_AudioRewind" -> [named |-> "MediaRewind"]
      [] keysym = "XF86_Calculater" -> [named |-> "LaunchApplication2"]
      [] keysym = "XF86_Close" -> [named |-> "Close"]
      [] keysym = "XF86_Copy" -> [named |-> "Copy"]
      [] keysym = "XF86_Cut" -> [named |-> "Cut"]
      [] keysym = "XF86_Excel" -> [named |-> "LaunchSpreadsheet"]
      [] keysym = "XF86_LogOff" -> [named |-> "LogOff"]
      [] keysym = "XF86_MySites" -> [named |-> "BrowserFavorites"]
      [] keysym = "XF86_New" -> [named |-> "New"]
      [] keysym = "XF86_Open" -> [named |-> "Open"]
      [] keysym = "XF86_Paste" -> [named |-> "Paste"]
      [] keysym = "XF86_Phone" -> [named |-> "LaunchPhone"]
      [] keysym = "XF86_Reply" -> [named |-> "MailReply"]
      [] keysym = "XF86_Reload" -> [named |-> "BrowserRefresh"]
      [] keysym = "XF86_Save" -> [named |-> "Save"]
      [] keysym = "XF86_Send" -> [named |-> "MailSend"]
      [] keysym = "XF86_Spell" -> [named |-> "SpellCheck"]
      [] keysym = "XF86_SplitScreen" -> [named |-> "SplitScreenToggle"]
      [] keysym = "XF86_Video" -> [named |-> "LaunchMediaPlayer"]
      [] keysym = "XF86_Word" -> [named |-> "LaunchWordProcessor"]
      [] keysym = "XF86_ZoomIn" -> [named |-> "ZoomIn"]
      [] keysym = "XF86_ZoomOut" -> [named |-> "ZoomOut"]
      [] keysym = "XF86_WebCam" -> [named |-> "LaunchWebCam"]
      [] keysym = "XF86_MailForward" -> [named |-> "MailForward"]
      [] keysym = "XF86_Music" -> [named |-> "LaunchMusicPlayer"]
      [] keysym = "XF86_AudioForward" -> [named |-> "MediaFastForward"]
      [] keysym = "XF86_AudioRandomPlay" -> [named |-> "RandomToggle"]
      [] keysym = "XF86_Subtitle" -> [named |-> "Subtitle"]
      [] keysym = "XF86_AudioCycleTrack" -> [named |-> "MediaAudioTrack"]
      [] keysym = "XF86_Suspend" -> [named |-> "Standby"]
      [] keysym = "XF86_Hibernate" -> [named |-> "Hibernate"]
      [] keysym = "XF86_AudioMute" -> [named |-> "AudioVolumeMute"]
      [] keysym = "XF86_Next_VMode" -> [named |-> "VideoModeNext"]
      [] keysym = "SUN_Copy" -> [named |-> "Copy"]
      [] keysym = "SUN_Open" -> [named |-> "Open"]
      [] keysym = "SUN_Paste" -> [named |-> "Paste"]
      [] keysym = "SUN_Cut" -> [named |-> "Cut"]
      [] keysym = "SUN_AudioLowerVolume" -> [named |-> "AudioVolumeDown"]
      [] keysym = "SUN_AudioMute" -> [named |-> "AudioVolumeMute"]
      [] keysym = "SUN_AudioRaiseVolume" -> [named |-> "AudioVolumeUp"]
      [] keysym = "SUN_VideoLowerBrightness" -> [named |-> "BrightnessDown"]
      [] keysym = "SUN_VideoRaiseBrightness" -> [named |-> "BrightnessUp"]
      [] OTHER -> [named |-> "Unidentified"]

keysym_location(keysym) ==
    CASE keysym \in {"Shift_L", "Control_L", "Alt_L", "Super_L",
                 "Hyper_L"} -> "Left"
      [] keysym \in {"Shift_R", "Control_R", "Alt_R", "Super_R",
                 "Hyper_R"} -> "Right"
      [] keysym \in {"KP_0", "KP_1", "KP_2", "KP_3", "KP_4", "KP_5",
                 "KP_6", "KP_7", "KP_8", "KP_9", "KP_Space",
                 "KP_Tab", "KP_Enter", "KP_F1", "KP_F2", "KP_F3",
                 "KP_F4", "KP_Home", "KP_Left", "KP_Up", "KP_Right",
                 "KP_Down", "KP_Page_Up", "KP_Page_Down", "KP_End",
                 "KP_Begin", "KP_Insert", "KP_Delete", "KP_Equal",
                 "KP_Multiply", "KP_Add", "KP_Separator",
                 "KP_Subtract", "KP_Decimal", "KP_Divide"} -> "Numpad"
      [] OTHER -> "Standard"

keysym_to_iced_key_and_loc(keysym) ==
    <<keysym_to_iced_key(keysym), keysym_location(keysym)>>

\* variant: a code outside the three recognized ones maps to an "other" button
wayland_button_to_iced_other(button) ==
    CASE button = BTN_LEFT -> Some("Left")
      [] button = BTN_RIGHT -> Some("Right")
      [] button = BTN_MIDDLE -> Some("Middle")
      [] OTHER -> Some("Other")

wayland_button_to_iced(button) ==
    CASE button = BTN_LEFT -> Some("Left")
      [] button = BTN_RIGHT -> Some("Right")
      [] button = BTN_MIDDLE -> Some("Middle")
      [] OTHER -> None

keysym_to_physical_key(keysym, raw_code) ==
    CASE keysym = "_0" -> [code |-> "Digit0", xkb |-> 0]
      [] keysym = "_1" -> [code |-> "Digit1", xkb |-> 0]
      [] keysym = "_2" -> [code |-> "Digit2", xkb |-> 0]
      [] keysym = "_3" -> [code |-> "Digit3", xkb |-> 0]
      [] keysym = "_4" -> [code |-> "Digit4", xkb |-> 0]
      [] keysym = "_5" -> [code |-> "Digit5", xkb |-> 0]
      [] keysym = "_6" -> [code |-> "Digit6", xkb |-> 0]
      [] keysym = "_7" -> [code |-> "Digit7", xkb |-> 0]
      [] keysym = "_8" -> [code |-> "Digit8", xkb |-> 0]
      [] keysym = "_9" -> [code |-> "Digit9", xkb |-> 0]
      [] keysym \in {"a", "A"} -> [code |-> "KeyA", xkb |-> 0]
      [] keysym \in {"b", "B"} -> [code |-> "KeyB", xkb |-> 0]
      [] keysym \in {"c", "C"} -> [code |-> "KeyC", xkb |-> 0]
      [] keysym \in {"d", "D"} -> [code |-> "KeyD", xkb |-> 0]
      [] keysym \in {"e", "E"} -> [code |-> "KeyE", xkb |-> 0]
      [] keysym \in {"f", "F"} -> [code |-> "KeyF", xkb |-> 0]
      [] keysym \in {"g", "G"} -> [code |-> "KeyG", xkb |-> 0]
      [] keysym \in {"h", "H"} -> [code |-> "KeyH", xkb |-> 0]
      [] keysym \in {"i", "I"} -> [code |-> "KeyI", xkb |-> 0]
      [] keysym \in {"j", "J"} -> [code |-> "KeyJ", xkb |-> 0]
      [] keysym \in {"k", "K"} -> [code |-> "KeyK", xkb |-> 0]
      [] keysym \in {"l", "L"} -> [code |-> "KeyL", xkb |-> 0]
      [] keysym \in {"m", "M"} -> [code |-> "KeyM", xkb |-> 0]
      [] keysym \in {"n", "N"} -> [code |-> "KeyN", xkb |-> 0]
      [] keysym \in {"o", "O"} -> [code |-> "KeyO", xkb |-> 0]
      [] keysym \in {"p", "P"} -> [code |-> "KeyP", xkb |-> 0]
      [] keysym \in {"q", "Q"} -> [code |-> "KeyQ", xkb |-> 0]
      [] keysym \in {"r", "R"} -> [code |-> "KeyR", xkb |-> 0]
      [] keysym \in {"s", "S"} -> [code |-> "KeyS", xkb |-> 0]
      [] keysym \in {"t", "T"} -> [code |-> "KeyT", xkb |-> 0]
      [] keysym \in {"u", "U"} -> [code |-> "KeyU", xkb |-> 0]
      [] keysym \in {"v", "V"} -> [code |-> "KeyV", xkb |-> 0]
      [] keysym \in {"w", "W"} -> [code |-> "KeyW", xkb |-> 0]
      [] keysym \in {"x", "X"} -> [code |-> "KeyX", xkb |-> 0]
      [] keysym \in {"y", "Y"} -> [code |-> "KeyY", xkb |-> 0]
      [] keysym \in {"z", "Z"} -> [code |-> "KeyZ", xkb |-> 0]
      [] keysym = "grave" -> [code |-> "Backquote", xkb |-> 0]
      [] keysym = "minus" -> [code |-> "Minus", xkb |-> 0]
      [] keysym = "equal" -> [code |-> "Equal", xkb |-> 0]
      [] keysym = "bracketleft" -> [code |-> "BracketLeft", xkb |-> 0]
      [] keysym = "bracketright" -> [code |-> "BracketRight", xkb |-> 0]
      [] keysym = "backslash" -> [code |-> "Backslash", xkb |-> 0]
      [] keysym = "semicolon" -> [code |-> "Semicolon", xkb |-> 0]
      [] keysym = "apostrophe" -> [code |-> "Quote", xkb |-> 0]
      [] keysym = "comma" -> [code |-> "Comma", xkb |-> 0]
      [] keysym = "period" -> [code |-> "Period", xkb |-> 0]
      [] keysym = "slash" -> [code |-> "Slash", xkb |-> 0]
      [] keysym = "space" -> [code |-> "Space", xkb |-> 0]
      [] keysym = "Tab" -> [code |-> "Tab", xkb |-> 0]
      [] keysym = "Return" -> [code |-> "Enter", xkb |-> 0]
      [] keysym = "BackSpace" -> [code |-> "Backspace", xkb |-> 0]
      [] keysym = "Delete" -> [code |-> "Delete", xkb |-> 0]
      [] keysym = "Escape" -> [code |-> "Escape", xkb |-> 0]
      [] keysym = "Shift_L" -> [code |-> "ShiftLeft", xkb |-> 0]
      [] keysym = "Shift_R" -> [code |-> "ShiftRight", xkb |-> 0]
      [] keysym = "Control_L" -> [code |-> "ControlLeft", xkb |-> 0]
      [] keysym = "Control_R" -> [code |-> "ControlRight", xkb |-> 0]
      [] keysym = "Alt_L" -> [code |-> "AltLeft", xkb |-> 0]
      [] keysym = "Alt_R" -> [code |-> "AltRight", xkb |-> 0]
      [] keysym = "Super_L" -> [code |-> "SuperLeft", xkb |-> 0]
      [] keysym = "Super_R" -> [code |-> "SuperRight", xkb |-> 0]
      [] keysym = "Caps_Lock" -> [code |-> "CapsLock", xkb |-> 0]
      [] keysym = "Num_Lock" -> [code |-> "NumLock", xkb |-> 0]
      [] keysym = "Scroll_Lock" -> [code |-> "ScrollLock", xkb |-> 0]
      [] keysym = "Home" -> [code |-> "Home", xkb |-> 0]
      [] keysym = "End" -> [code |-> "End", xkb |-> 0]
      [] keysym = "Page_Up" -> [code |-> "PageUp", xkb |-> 0]
      [] keysym = "Page_Down" -> [code |-> "PageDown", xkb |-> 0]
      [] keysym = "Left" -> [code |-> "ArrowLeft", xkb |-> 0]
      [] keysym = "Right" -> [code |-> "ArrowRight", xkb |-> 0]
      [] keysym = "Up" -> [code |-> "ArrowUp", xkb |-> 0]
      [] keysym = "Down" -> [code |-> "ArrowDown", xkb |-> 0]
      [] keysym = "Insert" -> [code |-> "Insert", xkb |-> 0]
      [] keysym = "Print" -> [code |-> "PrintScreen", xkb |-> 0]
      [] keysym = "Sys_Req" -> [code |-> "PrintScreen", xkb |-> 0]
      [] keysym = "F1" -> [code |-> "F1", xkb |-> 0]
      [] keysym = "F2" -> [code |-> "F2", xkb |-> 0]
      [] keysym = "F3" -> [code |-> "F3", xkb |-> 0]
      [] keysym = "F4" -> [code |-> "F4", xkb |-> 0]
      [] keysym = "F5" -> [code |-> "F5", xkb |-> 0]
      [] keysym = "F6" -> [code |-> "F6", xkb |-> 0]
      [] keysym = "F7" -> [code |-> "F7", xkb |-> 0]
      [] keysym = "F8" -> [code |-> "F8", xkb |-> 0]
      [] keysym = "F9" -> [code |-> "F9", xkb |-> 0]
      [] keysym = "F10" -> [code |-> "F10", xkb |-> 0]
      [] keysym = "F11" -> [code |-> "F11", xkb |-> 0]
      [] keysym = "F12" -> [code |-> "F12", xkb |-> 0]
      [] keysym = "F13" -> [code |-> "F13", xkb |-> 0]
      [] keysym = "F14" -> [code |-> "F14", xkb |-> 0]
      [] keysym = "F15" -> [code |-> "F15", xkb |-> 0]
      [] keysym = "F16" -> [code |-> "F16", xkb |-> 0]
      [] keysym = "F17" -> [code |-> "F17", xkb |-> 0]
      [] keysym = "F18" -> [code |-> "F18", xkb |-> 0]
      [] keysym = "F19" -> [code |-> "F19", xkb |-> 0]
      [] keysym = "F20" -> [code |-> "F20", xkb |-> 0]
      [] keysym = "F21" -> [code |-> "F21", xkb |-> 0]
      [] keysym = "F22" -> [code |-> "F22", xkb |-> 0]
      [] keysym = "F23" -> [code |-> "F23", xkb |-> 0]
      [] keysym = "F24" -> [code |-> "F24", xkb |-> 0]
      [] keysym = "F25" -> [code |-> "F25", xkb |-> 0]
      [] keysym = "F26" -> [code |-> "F26", xkb |-> 0]
      [] keysym = "F27" -> [code |-> "F27", xkb |-> 0]
      [] keysym = "F28" -> [code |-> "F28", xkb |-> 0]
      [] keysym = "F29" -> [code |-> "F29", xkb |-> 0]
      [] keysym = "F30" -> [code |-> "F30", xkb |-> 0]
      [] keysym = "F31" -> [code |-> "F31", xkb |-> 0]
      [] keysym = "F32" -> [code |-> "F32", xkb |-> 0]
      [] keysym = "F33" -> [code |-> "F33", xkb |-> 0]
      [] keysym = "F34" -> [code |-> "F34", xkb |-> 0]
      [] keysym = "F35" -> [code |-> "F35", xkb |-> 0]
      [] keysym = "KP_0" -> [code |-> "Numpad0", xkb |-> 0]
      [] keysym = "KP_1" -> [code |-> "Numpad1", xkb |-> 0]
      [] keysym = "KP_2" -> [code |-> "Numpad2", xkb |-> 0]
      [] keysym = "KP_3" -> [code |-> "Numpad3", xkb |-> 0]
      [] keysym = "KP_4" -> [code |-> "Numpad4", xkb |-> 0]
      [] keysym = "KP_5" -> [code |-> "Numpad5", xkb |-> 0]
      [] keysym = "KP_6" -> [code |-> "Numpad6", xkb |-> 0]
      [] keysym = "KP_7" -> [code |-> "Numpad7", xkb |-> 0]
      [] keysym = "KP_8" -> [code |-> "Numpad8", xkb |-> 0]
      [] keysym = "KP_9" -> [code |-> "Numpad9", xkb |-> 0]
      [] keysym = "KP_Decimal" -> [code |-> "NumpadDecimal", xkb |-> 0]
      [] keysym = "KP_Divide" -> [code |-> "NumpadDivide", xkb |-> 0]
      [] keysym = "KP_Multiply" -> [code |-> "NumpadMultiply", xkb |-> 0]
      [] keysym = "KP_Subtract" -> [code |-> "NumpadSubtract", xkb |-> 0]
      [] keysym = "KP_Add" -> [code |-> "NumpadAdd", xkb |-> 0]
      [] keysym = "KP_Enter" -> [code |-> "NumpadEnter", xkb |-> 0]
      [] keysym = "KP_Equal" -> [code |-> "NumpadEqual", xkb |-> 0]
      [] keysym = "Pause" -> [code |-> "Pause", xkb |-> 0]
      [] keysym = "Break" -> [code |-> "Pause", xkb |-> 0]
      [] keysym = "XF86_AudioMute" -> [code |-> "AudioVolumeMute", xkb |-> 0]
      [] keysym = "XF86_AudioLowerVolume" -> [code |-> "AudioVolumeDown", xkb |-> 0]
      [] keysym = "XF86_AudioRaiseVolume" -> [code |-> "AudioVolumeUp", xkb |-> 0]
      [] keysym = "XF86_AudioPlay" -> [code |-> "MediaPlayPause", xkb |-> 0]
      [] keysym = "XF86_AudioStop" -> [code |-> "MediaStop", xkb |-> 0]
      [] keysym = "XF86_AudioPrev" -> [code |-> "MediaTrackPrevious", xkb |-> 0]
      [] keysym = "XF86_AudioNext" -> [code |-> "MediaTrackNext", xkb |-> 0]
      [] keysym = "XF86_Back" -> [code |-> "BrowserBack", xkb |-> 0]
      [] keysym = "XF86_Forward" -> [code |-> "BrowserForward", xkb |-> 0]
      [] keysym = "XF86_Refresh" -> [code |-> "BrowserRefresh", xkb |-> 0]
      [] keysym = "XF86_Stop" -> [code |-> "BrowserStop", xkb |-> 0]
      [] keysym = "XF86_Search" -> [code |-> "BrowserSearch", xkb |-> 0]
      [] keysym = "XF86_HomePage" -> [code |-> "BrowserHome", xkb |-> 0]
      [] keysym = "XF86_Favorites" -> [code |-> "BrowserFavorites", xkb |-> 0]
      [] keysym = "XF86_PowerOff" -> [code |-> "Power", xkb |-> 0]
      [] keysym = "XF86_Sleep" -> [code |-> "Sleep", xkb |-> 0]
      [] keysym = "XF86_WakeUp" -> [code |-> "WakeUp", xkb |-> 0]
      [] keysym = "XF86_Calculator" -> [code |-> "LaunchApp2", xkb |-> 0]
      [] keysym = "XF86_Mail" -> [code |-> "LaunchMail", xkb |-> 0]
      [] keysym = "XF86_MyComputer" -> [code |-> "LaunchApp1", xkb |-> 0]
      [] keysym = "XF86_Music" -> [code |-> "MediaSelect", xkb |-> 0]
      [] keysym = "XF86_Video" -> [code |-> "LaunchApp2", xkb |-> 0]
      [] keysym = "XF86_Copy" -> [code |-> "Copy", xkb |-> 0]
      [] keysym = "XF86_Cut" -> [code |-> "Cut", xkb |-> 0]
      [] keysym = "XF86_Paste" -> [code |-> "Paste", xkb |-> 0]
      [] keysym = "Henkan_Mode" -> [code |-> "Convert", xkb |-> 0]
      [] keysym = "Muhenkan" -> [code |-> "NonConvert", xkb |-> 0]
      [] keysym = "Kanji" -> [code |-> "Lang2", xkb |-> 0]
      [] keysym = "Hiragana" -> [code |-> "Lang4", xkb |-> 0]
      [] keysym = "Katakana" -> [code |-> "Lang3", xkb |-> 0]
      [] keysym = "Menu" -> [code |-> "ContextMenu", xkb |-> 0]
      [] OTHER -> [code |-> "Unidentified", xkb |-> raw_code]

----------------------------------------------------------------------------
(* WaylandToIcedInput *)

WaylandToIcedInput_new ==
    [modifiers |-> {}, pointer_pos |-> <<0, 0>>, events |-> <<>>,
     screen_width |-> DefaultSize, screen_height |-> DefaultSize,
     last_key_utf8 |-> None]

set_screen_size(i, width, height) ==
    [i EXCEPT !.screen_width = width, !.screen_height = height]

\* variant: an axis sub-event is queued when it carries any movement,
\* continuous or discrete
input_handle_pointer_event_any_axis(i, event) ==
    CASE event.kind = "Enter" ->
            [i EXCEPT !.pointer_pos = event.position,
                      !.events = Append(@, [type |-> "CursorEntered"])]
      [] event.kind = "Leave" ->
            [i EXCEPT !.events = Append(@, [type |-> "CursorLeft"])]
      [] event.kind = "Motion" ->
            [i EXCEPT !.pointer_pos = event.position,
                      !.events = Append(@, [type |-> "CursorMoved",
                                            position |-> Point_new(event.position)])]
      [] event.kind \in {"Press", "Release"} -> i
      [] event.kind = "Axis" ->
            IF \/ event.horizontal.discrete # 0 \/ event.vertical.discrete # 0
               \/ event.horizontal.absolute # 0 \/ event.vertical.absolute # 0
            THEN [i EXCEPT !.events = Append(@,
                    [type |-> "WheelScrolled",
                     delta |-> [unit |-> "Lines",
                                x |-> as_f32(event.horizontal.discrete),
                                y |-> as_f32(event.vertical.discrete)]])]
            ELSE i

input_handle_pointer_event(i, event) ==
    CASE event.kind = "Enter" ->
            [i EXCEPT !.pointer_pos = event.position,
                      !.events = Append(@, [type |-> "CursorEntered"])]
      [] event.kind = "Leave" ->
            [i EXCEPT !.events = Append(@, [type |-> "CursorLeft"])]
      [] event.kind = "Motion" ->
            [i EXCEPT !.pointer_pos = event.position,
                      !.events = Append(@, [type |-> "CursorMoved",
                                            position |-> Point_new(event.position)])]
      [] event.kind = "Press" ->
            LET b == wayland_button_to_iced(event.button) IN
            IF is_some(b)
            THEN [i EXCEPT !.events = Append(@, [type |-> "ButtonPressed",
                                                 button |-> unwrap(b)])]
            ELSE i
      [] event.kind = "Release" ->
            LET b == wayland_button_to_iced(event.button) IN
            IF is_some(b)
            THEN [i EXCEPT !.events = Append(@, [type |-> "ButtonReleased",
                                                 button |-> unwrap(b)])]
            ELSE i
      [] event.kind = "Axis" ->
            LET scroll_delta ==
                    [unit |-> "Lines",
                     x |-> as_f32(event.horizontal.discrete),
                     y |-> as_f32(event.vertical.discrete)]
            IN IF event.horizontal.discrete # 0 \/ event.vertical.discrete # 0
               THEN [i EXCEPT !.events = Append(@, [type |-> "WheelScrolled",
                                                    delta |-> scroll_delta])]
               ELSE i

\* variant: hands the queue over without clearing it
take_events_keep(i) == <<i.events, i>>

take_events(i) == <<i.events, [i EXCEPT !.events = <<>>]>>

input_handle_keyboard_enter(i) == i

input_handle_keyboard_leave(i) == i

\* variant: the raw scan code is not handed to the physical-key mapper
input_handle_keyboard_event_no_raw_code(i, event, pressed, is_repeat) ==
    [i EXCEPT !.events = Append(@,
        [type |-> IF pressed THEN "KeyPressed" ELSE "KeyReleased",
         physical_key |-> keysym_to_physical_key(event.keysym, 0)])]

\* variant: a key whose symbol has no logical-key mapping is not queued
input_handle_keyboard_event_mapped_only(i, event, pressed, is_repeat) ==
    IF keysym_to_iced_key(event.keysym) = [named |-> "Unidentified"]
    THEN i
    ELSE [i EXCEPT !.events = Append(@,
            [type |-> IF pressed THEN "KeyPressed" ELSE "KeyReleased",
             key |-> keysym_to_iced_key(event.keysym)])]

input_handle_keyboard_event(i, event, pressed, is_repeat) ==
    LET kl == keysym_to_iced_key_and_loc(event.keysym)
        text == event.utf8
        physical_key == keysym_to_physical_key(event.keysym, event.raw_code)
    IN IF pressed
       THEN [i EXCEPT !.events = Append(@,
                [type |-> "KeyPressed", key |-> kl[1], location |-> kl[2],
                 modifiers |-> i.modifiers, text |-> text,
                 modified_key |-> kl[1], physical_key |-> physical_key,
                 repeat |-> is_repeat])]
       ELSE [i EXCEPT !.events = Append(@,
                [type |-> "KeyReleased", key |-> kl[1], location |-> kl[2],
                 modifiers |-> i.modifiers, physical_key |-> physical_key,
                 modified_key |-> kl[1]])]

\* variant: the flagged modifiers are merged into the stored set
input_update_modifiers_merged(i, wayland_mods) ==
    [i EXCEPT !.modifiers = @
        \cup (IF wayland_mods.shift THEN {"SHIFT"} ELSE {})
        \cup (IF wayland_mods.ctrl THEN {"CTRL"} ELSE {})
        \cup (IF wayland_mods.alt THEN {"ALT"} ELSE {})]

input_update_modifiers(i, wayland_mods) ==
    LET mods == (IF wayland_mods.shift THEN {"SHIFT"} ELSE {})
                \cup (IF wayland_mods.ctrl THEN {"CTRL"} ELSE {})
                \cup (IF wayland_mods.alt THEN {"ALT"} ELSE {})
    IN [i EXCEPT !.modifiers = mods]

get_pointer_position(i) == i.pointer_pos

----------------------------------------------------------------------------
(* The application state of the example (examples/iced_example.rs) *)

Counter_default == [value |-> 0]

Counter_update(app, message) ==
    CASE message = "Increment" -> [app EXCEPT !.value = @ + 1]
      [] message = "Decrement" -> [app EXCEPT !.value = @ - 1]

RECURSIVE apply_messages(_, _)
apply_messages(app, messages) ==
    IF messages = <<>> THEN app
    ELSE apply_messages(Counter_update(app, Head(messages)), Tail(messages))

----------------------------------------------------------------------------
(* IcedSurfaceState.  A handler run is threaded through a record m:         *)
(*   s          the surface state (the struct's fields)                     *)
(*   fx         the calls made so far, in order                             *)
(*   batches    the event batches given to the toolkit                      *)
(*   pushed     the events the translator queued                            *)
(*   requested  the frame callbacks requested                               *)
(*   panicked   whether an `expect` failed                                  *)
(*   viewport, events, had_input_events, cursor: the locals of render()     *)

Run(s) ==
    [s |-> s, fx |-> <<>>, batches |-> <<>>, pushed |-> <<>>,
     requested |-> 0, panicked |-> FALSE,
     viewport |-> None, events |-> <<>>, had_input_events |-> FALSE,
     cursor |-> <<0, 0>>]

Did(m, entry) == [m EXCEPT !.fx = Append(@, entry)]

\* a call into the owned translator: new translator state i, logged as entry
Translated(m, i, entry) ==
    [m EXCEPT !.s.input_state = i,
              !.fx = Append(@, entry),
              !.pushed = @ \o SubSeq(i.events,
                                     Len(m.s.input_state.events) + 1,
                                     Len(i.events))]

RedrawRequested == [type |-> "RedrawRequested"]

IcedSurfaceState_new ==
    [width |-> DefaultSize, height |-> DefaultSize, scale_factor |-> 1,
     surface_config |-> None, input_state |-> WaylandToIcedInput_new,
     iced_app |-> Counter_default, mouse_interaction |-> "None"]

physical_scale(s) == as_u32(max(s.scale_factor, 1))

create_viewport(s) ==
    [physical_width |-> saturating_mul(s.width, physical_scale(s)),
     physical_height |-> saturating_mul(s.height, physical_scale(s)),
     scale |-> as_f32(physical_scale(s))]

\* variant: the redraw marker is put in front of the queued events
collect_events_marker_first(m) ==
    [m EXCEPT !.events = <<RedrawRequested>> \o take_events(m.s.input_state)[1],
              !.had_input_events = take_events(m.s.input_state)[1] # <<>>,
              !.s.input_state = take_events(m.s.input_state)[2]]

collect_events(m) ==
    [m EXCEPT !.events = Append(take_events(m.s.input_state)[1],
                                RedrawRequested),
              !.had_input_events = take_events(m.s.input_state)[1] # <<>>,
              !.s.input_state = take_events(m.s.input_state)[2]]


\* variant: the two coordinates change places
get_cursor_position_swapped(s) ==
    Point_new(<<get_pointer_position(s.input_state)[2],
                get_pointer_position(s.input_state)[1]>>)

get_cursor_position(s) == Point_new(get_pointer_position(s.input_state))

\* UserInterface::build(self.iced_app.view(), ...)
ui_build(m) == Did(m, [op |-> "build", app |-> m.s.iced_app.value])

\* user_interface.update(&events, cursor, ...)
ui_update(m) ==
    [Did(m, [op |-> "update", cursor |-> m.cursor])
        EXCEPT !.batches = Append(@, m.events)]

\* variant: the cursor shape is sent in every pass that reports one
ui_mouse_interaction_every_pass(m, ui) ==
    IF ui.state = "Updated"
    THEN [Did(m, [op |-> "set_cursor", interaction |-> ui.mouse_interaction])
             EXCEPT !.s.mouse_interaction = ui.mouse_interaction]
    ELSE m

\* the cursor-shape feedback after update
ui_mouse_interaction(m, ui) ==
    IF ui.state = "Updated" /\ m.s.mouse_interaction # ui.mouse_interaction
    THEN [Did(m, [op |-> "set_cursor", interaction |-> ui.mouse_interaction])
             EXCEPT !.s.mouse_interaction = ui.mouse_interaction]
    ELSE m

\* for message in &messages { self.iced_app.update(message.clone()) }
ui_apply_messages(m, messages) ==
    [m EXCEPT !.s.iced_app = apply_messages(@, messages),
              !.fx = @ \o [k \in 1..Len(messages) |->
                             [op |-> "app_update", message |-> messages[k]]]]

\* user_interface.draw(...)
ui_draw(m) == Did(m, [op |-> "draw", app |-> m.s.iced_app.value])

\* variant: the UI built before the messages is drawn, then the messages
\* are applied
update_and_draw_stale(m, ui) ==
    ui_apply_messages(ui_draw(ui_mouse_interaction(ui_update(ui_build(m)), ui)),
                      ui.messages)

update_and_draw(m, ui) ==
    IF ui.messages = <<>>
    THEN ui_draw(ui_mouse_interaction(ui_update(ui_build(m)), ui))
    ELSE ui_draw(ui_build(ui_apply_messages(
                    ui_mouse_interaction(ui_update(ui_build(m)), ui),
                    ui.messages)))

\* variant: the renderer submits its work and the texture is not presented
present_frame_unpresented(m) ==
    Did(m, [op |-> "renderer_present",
            width |-> m.viewport.physical_width,
            height |-> m.viewport.physical_height])

present_frame(m) ==
    Did(Did(m, [op |-> "renderer_present",
                width |-> m.viewport.physical_width,
                height |-> m.viewport.physical_height]),
        [op |-> "texture_present"])

request_next_frame(m) ==
    [Did(Did(m, [op |-> "frame"]), [op |-> "commit"])
        EXCEPT !.requested = @ + 1]

\* wgpu::Surface::get_current_texture: fails on a surface that was never
\* configured, and may fail (timeout, outdated, lost) on a configured one
get_current_texture(s, ok) == is_some(s.surface_config) /\ ok

\* render() once the texture is acquired: viewport, events and cursor
render_locals(m) ==
    [collect_events([m EXCEPT !.viewport = create_viewport(m.s)])
        EXCEPT !.cursor = get_cursor_position(m.s)]

\* the re-arm at the end of render()
\* variant: continuous rendering, every render pass requests the next frame
render_rearm_always(m) == request_next_frame(m)

render_rearm(m) == IF m.had_input_events THEN request_next_frame(m) ELSE m


\* variant: the input queue is taken before the texture is acquired
render_collect_first(m, env) ==
    IF ~get_current_texture(m.s, env.ok)
    THEN [Did(collect_events(m), [op |-> "get_current_texture", ok |-> FALSE])
             EXCEPT !.panicked = TRUE]
    ELSE render_rearm(present_frame(update_and_draw(
            render_locals(Did(m, [op |-> "get_current_texture", ok |-> TRUE])),
            env.ui)))

render(m, env) ==
    IF ~get_current_texture(m.s, env.ok)
    THEN [Did(m, [op |-> "get_current_texture", ok |-> FALSE])
             EXCEPT !.panicked = TRUE]
    ELSE render_rearm(present_frame(update_and_draw(
            render_locals(Did(m, [op |-> "get_current_texture", ok |-> TRUE])),
            env.ui)))

reconfigure_surface(m) ==
    [Did(m, [op |-> "surface_configure",
             width |-> u32_max(saturating_mul(m.s.width, physical_scale(m.s)), 1),
             height |-> u32_max(saturating_mul(m.s.height, physical_scale(m.s)), 1)])
        EXCEPT !.s.surface_config =
            Some([width |-> u32_max(saturating_mul(m.s.width, physical_scale(m.s)), 1),
                  height |-> u32_max(saturating_mul(m.s.height, physical_scale(m.s)), 1)])]

\* variant: the requested size is stored as it comes
configure_size_unclamped(m, width, height) ==
    [m EXCEPT !.s.width = width, !.s.height = height]


\* variant: the height is clamped from the stored width, read before the new
\* width is written
configure_size_stale_height(m, width, height) ==
    [m EXCEPT !.s.width = u32_max(width, 1), !.s.height = u32_max(m.s.width, 1)]

\* self.width = width.max(1); self.height = height.max(1)
configure_size(m, width, height) ==
    [m EXCEPT !.s.width = u32_max(width, 1), !.s.height = u32_max(height, 1)]

\* self.input_state.set_screen_size(self.width, self.height)
configure_screen_size(m) ==
    Translated(m, set_screen_size(m.s.input_state, m.s.width, m.s.height),
               [op |-> "set_screen_size", width |-> m.s.width,
                height |-> m.s.height])

\* variant: the presentation surface is reconfigured before the translator
\* learns the size
configure_surface_first(m, width, height, env) ==
    render(configure_screen_size(reconfigure_surface(
              configure_size(m, width, height))), env)

configure(m, width, height, env) ==
    render(reconfigure_surface(configure_screen_size(
              configure_size(m, width, height))), env)

\* variant: a frame callback always asks for the next one
frame_continuous(m, time, env) ==
    IF render(m, env).panicked THEN render(m, env)
    ELSE [render(m, env) EXCEPT !.requested = 1]

frame(m, time, env) == render(m, env)

handle_pointer_event(m, event, env) ==
    render(Translated(m, input_handle_pointer_event(m.s.input_state, event),
                      [op |-> "input_pointer_event"]), env)

\* variant: the translator is updated and the render pass is left to the
\* next frame callback
handle_keyboard_enter_deferred(m, env) ==
    Translated(m, input_handle_keyboard_enter(m.s.input_state),
               [op |-> "input_keyboard_enter"])

handle_keyboard_enter(m, env) ==
    render(Translated(m, input_handle_keyboard_enter(m.s.input_state),
                      [op |-> "input_keyboard_enter"]), env)

handle_keyboard_leave(m, env) ==
    render(Translated(m, input_handle_keyboard_leave(m.s.input_state),
                      [op |-> "input_keyboard_leave"]), env)

handle_keyboard_event(m, event, pressed, repeat, env) ==
    render(Translated(m, input_handle_keyboard_event(m.s.input_state, event,
                                                     pressed, repeat),
                      [op |-> "input_keyboard_event"]), env)

update_modifiers(m, modifiers, env) ==
    render(Translated(m, input_update_modifiers(m.s.input_state, modifiers),
                      [op |-> "input_update_modifiers"]), env)

\* scale_factor_changed() once the factor is known to differ
scale_factor_apply(m, factor, env) ==
    render(reconfigure_surface([m EXCEPT !.s.scale_factor = factor]), env)

scale_factor_changed(m, new_factor, env) ==
    IF max(new_factor, 1) = m.s.scale_factor
    THEN Did(m, [op |-> "set_buffer_scale", scale |-> new_factor])
    ELSE scale_factor_apply(
            Did(m, [op |-> "set_buffer_scale", scale |-> new_factor]),
            max(new_factor, 1), env)

----------------------------------------------------------------------------
(* The four containers.  A callback is a record [op, arg]. *)

Callback(op, arg) == [op |-> op, arg |-> arg]

IcedWindow_new(width, height) ==
    [IcedSurfaceState_new EXCEPT !.width = width, !.height = height]

\* variant: an unspecified dimension falls back to the previous size
IcedWindow_configure_keep(m, cfg, env) ==
    configure(Did(m, [op |-> "set_buffer_scale", scale |-> m.s.scale_factor]),
              map_or(cfg[1], m.s.width), map_or(cfg[2], m.s.height), env)

IcedWindow_configure(m, cfg, env) ==
    LET width == map_or(cfg[1], DefaultSize)
        height == map_or(cfg[2], DefaultSize)
    IN configure(Did(m, [op |-> "set_buffer_scale",
                         scale |-> m.s.scale_factor]),
                 width, height, env)

IcedWindow_callback(m, cb, env) ==
    CASE cb.op = "scale_factor_changed" -> scale_factor_changed(m, cb.arg, env)
      [] cb.op = "frame" -> frame(m, cb.arg, env)
      [] cb.op = "enter" -> handle_keyboard_enter(m, env)
      [] cb.op = "leave" -> handle_keyboard_leave(m, env)
      [] cb.op = "press_key" -> handle_keyboard_event(m, cb.arg, TRUE, FALSE, env)
      [] cb.op = "release_key" -> handle_keyboard_event(m, cb.arg, FALSE, FALSE, env)
      [] cb.op = "update_modifiers" -> update_modifiers(m, cb.arg, env)
      [] cb.op = "repeat_key" -> handle_keyboard_event(m, cb.arg, TRUE, TRUE, env)
      [] cb.op = "pointer_frame" -> handle_pointer_event(m, cb.arg, env)
      [] cb.op = "configure" -> IcedWindow_configure(m, cb.arg, env)
      [] OTHER -> m

IcedLayerSurface_new(width, height) ==
    [IcedSurfaceState_new EXCEPT !.width = width, !.height = height]

IcedLayerSurface_configure(m, config, env) ==
    configure(Did(m, [op |-> "set_buffer_scale", scale |-> m.s.scale_factor]),
              config[1], config[2], env)

IcedLayerSurface_callback(m, cb, env) ==
    CASE cb.op = "scale_factor_changed" -> scale_factor_changed(m, cb.arg, env)
      [] cb.op = "frame" -> frame(m, cb.arg, env)
      [] cb.op = "enter" -> handle_keyboard_enter(m, env)
      [] cb.op = "leave" -> handle_keyboard_leave(m, env)
      [] cb.op = "press_key" -> handle_keyboard_event(m, cb.arg, TRUE, FALSE, env)
      [] cb.op = "release_key" -> handle_keyboard_event(m, cb.arg, FALSE, FALSE, env)
      [] cb.op = "update_modifiers" -> update_modifiers(m, cb.arg, env)
      [] cb.op = "repeat_key" -> handle_keyboard_event(m, cb.arg, TRUE, TRUE, env)
      [] cb.op = "pointer_frame" -> handle_pointer_event(m, cb.arg, env)
      [] cb.op = "configure" -> IcedLayerSurface_configure(m, cb.arg, env)
      [] OTHER -> m

IcedPopup_new(width, height) ==
    [IcedSurfaceState_new EXCEPT !.width = width, !.height = height]

IcedPopup_configure(m, config, env) ==
    configure(Did(m, [op |-> "set_buffer_scale", scale |-> m.s.scale_factor]),
              as_u32(config[1]), as_u32(config[2]), env)

IcedPopup_callback(m, cb, env) ==
    CASE cb.op = "scale_factor_changed" -> scale_factor_changed(m, cb.arg, env)
      [] cb.op = "frame" -> frame(m, cb.arg, env)
      [] cb.op = "enter" -> handle_keyboard_enter(m, env)
      [] cb.op = "leave" -> handle_keyboard_leave(m, env)
      [] cb.op = "press_key" -> handle_keyboard_event(m, cb.arg, TRUE, FALSE, env)
      [] cb.op = "release_key" -> handle_keyboard_event(m, cb.arg, FALSE, FALSE, env)
      [] cb.op = "update_modifiers" -> update_modifiers(m, cb.arg, env)
      [] cb.op = "repeat_key" -> handle_keyboard_event(m, cb.arg, TRUE, TRUE, env)
      [] cb.op = "pointer_frame" -> handle_pointer_event(m, cb.arg, env)
      [] cb.op = "configure" -> IcedPopup_configure(m, cb.arg, env)
      [] OTHER -> m

IcedSubsurface_new(width, height) ==
    [IcedSurfaceState_new EXCEPT !.width = width, !.height = height]

IcedSubsurface_configure(m, width, height, env) ==
    configure(Did(m, [op |-> "set_buffer_scale", scale |-> m.s.scale_factor]),
              width, height, env)

\* variant: a subsurface renders before it forwards a key press
IcedSubsurface_callback_render_first(m, cb, env) ==
    CASE cb.op = "press_key" ->
            Translated(render(m, env),
                       input_handle_keyboard_event(
                           render(m, env).s.input_state, cb.arg, TRUE, FALSE),
                       [op |-> "input_keyboard_event"])
      [] cb.op = "configure" ->
            IcedSubsurface_configure(m, cb.arg[1], cb.arg[2], env)
      [] OTHER -> IcedPopup_callback(m, cb, env)

IcedSubsurface_callback(m, cb, env) ==
    CASE cb.op = "scale_factor_changed" -> scale_factor_changed(m, cb.arg, env)
      [] cb.op = "frame" -> frame(m, cb.arg, env)
      [] cb.op = "enter" -> handle_keyboard_enter(m, env)
      [] cb.op = "leave" -> handle_keyboard_leave(m, env)
      [] cb.op = "press_key" -> handle_keyboard_event(m, cb.arg, TRUE, FALSE, env)
      [] cb.op = "release_key" -> handle_keyboard_event(m, cb.arg, FALSE, FALSE, env)
      [] cb.op = "update_modifiers" -> update_modifiers(m, cb.arg, env)
      [] cb.op = "repeat_key" -> handle_keyboard_event(m, cb.arg, TRUE, TRUE, env)
      [] cb.op = "pointer_frame" -> handle_pointer_event(m, cb.arg, env)
      [] cb.op = "configure" ->
            IcedSubsurface_configure(m, cb.arg[1], cb.arg[2], env)
      [] OTHER -> m

\* the container a callback is routed to handles it
Dispatch(k, m, cb, env) ==
    CASE k = "Window" -> IcedWindow_callback(m, cb, env)
      [] k = "LayerSurface" -> IcedLayerSurface_callback(m, cb, env)
      [] k = "Popup" -> IcedPopup_callback(m, cb, env)
      [] k = "Subsurface" -> IcedSubsurface_callback(m, cb, env)

Construct(k, width, height) ==
    CASE k = "Window" -> IcedWindow_new(width, height)
      [] k = "LayerSurface" -> IcedLayerSurface_new(width, height)
      [] k = "Popup" -> IcedPopup_new(width, height)
      [] k = "Subsurface" -> IcedSubsurface_new(width, height)

----------------------------------------------------------------------------
(* The egui containers (egui_impl.rs): a stub surface, window only *)

EguiWgpuSurface_new == [wl_surface |-> "wl_surface"]

EguiWindow_new == [surface |-> EguiWgpuSurface_new]

\* WindowContainer::configure is todo!(): it panics whatever it is given
EguiWindow_configure(w, cfg) == [w |-> w, panicked |-> TRUE]

----------------------------------------------------------------------------
(* The shm application (common.rs): a vector of tracked windows, one       *)
(* translator and one buffer pool.  The translator type is not part of     *)
(* these sources: its state is carried as the calls made on it, in order.  *)
(* A handler run is threaded through a record r: app, fx (the requests     *)
(* sent), panicked, result.                                                *)

WindowKinds == {"LayerSurface", "Window"}

\* WaylandWindow as create_layer_surface / create_xdg_window build it;
\* surface is the identity of the wl_surface behind the handle
WaylandWindow_new(k, wl_surface) ==
    [width |-> 256, height |-> 256, scale_factor |-> 1,
     themed_pointer |-> None, kind |-> k, surface |-> wl_surface, buffer |-> None]

Application_new == [windows |-> <<>>, input_state |-> <<>>, pool |-> None]

\* one callback of the Application under way.  overflow_checks is the
\* build's setting: with it (cargo's dev profile) an integer overflow
\* panics, without it (the release profile) the result wraps
AppRun(a) ==
    [app |-> a, fx |-> <<>>, panicked |-> FALSE, result |-> None,
     overflow_checks |-> TRUE]

\* the same in a build with or without overflow checks
AppRunIn(a, checks) == [AppRun(a) EXCEPT !.overflow_checks = checks]

\* a request sent to the compositor
Sent(r, entry) == [r EXCEPT !.fx = Append(@, entry)]

\* a call on the shared translator
InputCall(r, entry) == [r EXCEPT !.app.input_state = Append(@, entry)]

\* the identities of the tracked surfaces
TrackedSurfaces(a) == {a.windows[k].surface : k \in DOMAIN a.windows}


\* variant: Vec::swap_remove, the last element takes the removed one's place
vec_swap_remove(v, index) ==
    [k \in 1..(Len(v) - 1) |-> IF k = index + 1 THEN v[Len(v)] ELSE v[k]]

\* Vec::remove(index), index counted from 0
vec_remove(v, index) ==
    [k \in 1..(Len(v) - 1) |-> IF k <= index THEN v[k] ELSE v[k + 1]]

create_layer_surface(r, wl_surface) ==
    [Sent(Sent(Sent(Sent(Sent(Sent(r,
        [op |-> "create_surface", surface |-> wl_surface]),
        [op |-> "create_layer_surface", surface |-> wl_surface]),
        [op |-> "set_anchor", surface |-> wl_surface]),
        [op |-> "set_keyboard_interactivity", surface |-> wl_surface]),
        [op |-> "set_size", surface |-> wl_surface, width |-> 256, height |-> 256]),
        [op |-> "commit", surface |-> wl_surface])
     EXCEPT !.app.windows = Append(@, WaylandWindow_new("LayerSurface", wl_surface))]

create_xdg_window(r, wl_surface) ==
    [Sent(Sent(Sent(Sent(Sent(Sent(r,
        [op |-> "create_surface", surface |-> wl_surface]),
        [op |-> "create_window", surface |-> wl_surface]),
        [op |-> "set_title", surface |-> wl_surface]),
        [op |-> "set_app_id", surface |-> wl_surface]),
        [op |-> "set_min_size", surface |-> wl_surface, width |-> 256, height |-> 256]),
        [op |-> "commit", surface |-> wl_surface])
     EXCEPT !.app.windows = Append(@, WaylandWindow_new("Window", wl_surface))]

\* dropping the removed wrapper destroys its protocol object
close_window(r, index) ==
    IF index < Len(r.app.windows)
    THEN [Sent(r, [op |-> "destroy",
                   surface |-> r.app.windows[index + 1].surface])
            EXCEPT !.app.windows = vec_remove(@, index),
                   !.result = Some("unit")]
    ELSE [r EXCEPT !.result = None]

\* variant: the window is looked up by the surface identity alone
find_window_any_kind(windows, k, target) ==
    IF \A j \in DOMAIN windows : windows[j].surface # target
    THEN 0
    ELSE CHOOSE i \in DOMAIN windows :
            /\ windows[i].surface = target
            /\ \A j \in 1..(i - 1) : windows[j].surface # target

\* the position of the first tracked window of kind k on surface target,
\* 0 if there is none
find_window(windows, k, target) ==
    IF \A j \in DOMAIN windows :
          ~(windows[j].kind = k /\ windows[j].surface = target)
    THEN 0
    ELSE CHOOSE i \in DOMAIN windows :
            /\ windows[i].kind = k /\ windows[i].surface = target
            /\ \A j \in 1..(i - 1) :
                  ~(windows[j].kind = k /\ windows[j].surface = target)

\* win.width = new_width; win.height = new_height;
\* self.input_state.set_screen_size(win.width, win.height)
configure_window_size(r, i, new_width, new_height) ==
    InputCall([r EXCEPT !.app.windows[i].width = new_width,
                        !.app.windows[i].height = new_height],
              [op |-> "set_screen_size", width |-> new_width,
               height |-> new_height])

\* let size = (win.width as usize) * (win.height as usize) * 4
pool_size(win) ==
    LET area == usize_mul(as_usize(win.width), as_usize(win.height))
        size == usize_mul(area.value, as_usize(4))
    IN [value |-> size.value, overflows |-> area.overflows \/ size.overflows]

\* the pool is created on the first configure; the size may overflow and
\* creation may fail
ensure_pool(r, i, shm) ==
    IF is_some(r.app.pool) THEN r
    ELSE IF r.overflow_checks /\ pool_size(r.app.windows[i]).overflows
    THEN [r EXCEPT !.panicked = TRUE]
    ELSE IF shm = "SlotPool"
    THEN [Sent(r, [op |-> "SlotPool_new", ok |-> FALSE])
             EXCEPT !.panicked = TRUE]
    ELSE [Sent(r, [op |-> "SlotPool_new", ok |-> TRUE])
             EXCEPT !.app.pool = Some(pool_size(r.app.windows[i]).value)]

\* let stride = win.width as i32 * 4, which may overflow; then create the
\* buffer, paint it, damage, frame, attach, commit, keep it
attach_buffer(r, i, target, shm) ==
    IF r.panicked THEN r
    ELSE IF r.overflow_checks /\ mul_overflows(as_i32(r.app.windows[i].width), 4)
    THEN [r EXCEPT !.panicked = TRUE]
    ELSE IF shm = "create_buffer"
    THEN [Sent(r, [op |-> "create_buffer", ok |-> FALSE])
             EXCEPT !.panicked = TRUE]
    ELSE IF shm = "attach"
    THEN [Sent(Sent(Sent(Sent(r,
            [op |-> "create_buffer", ok |-> TRUE]),
            [op |-> "damage_buffer", surface |-> target]),
            [op |-> "frame", surface |-> target]),
            [op |-> "attach", surface |-> target, ok |-> FALSE])
             EXCEPT !.panicked = TRUE]
    ELSE [Sent(Sent(Sent(Sent(Sent(r,
            [op |-> "create_buffer", ok |-> TRUE]),
            [op |-> "damage_buffer", surface |-> target]),
            [op |-> "frame", surface |-> target]),
            [op |-> "attach", surface |-> target, ok |-> TRUE]),
            [op |-> "commit", surface |-> target])
             EXCEPT !.app.windows[i].buffer =
                Some([width |-> as_i32(r.app.windows[i].width),
                      height |-> as_i32(r.app.windows[i].height),
                      stride |-> wrapping_mul(as_i32(r.app.windows[i].width),
                                              4)])]

\* the body of the configure loop for the matching window at position i
configure_window(r, i, new_width, new_height, target, shm) ==
    IF i = 0 THEN r
    ELSE attach_buffer(
            ensure_pool(configure_window_size(r, i, new_width, new_height),
                        i, shm),
            i, target, shm)

\* impl LayerShellHandler for Application
LayerShellHandler_configure(r, target_layer, cfg, shm) ==
    configure_window(r, find_window(r.app.windows, "LayerSurface", target_layer),
                     cfg[1], cfg[2], target_layer, shm)

\* impl WindowHandler for Application
WindowHandler_configure(r, target_window, cfg, shm) ==
    configure_window(r, find_window(r.app.windows, "Window", target_window),
                     map_or(cfg[1], 256), map_or(cfg[2], 256),
                     target_window, shm)

\* impl CompositorHandler for Application
CompositorHandler_scale_factor_changed(r, wl_surface, new_factor) ==
    Sent(Sent(r, [op |-> "frame", surface |-> wl_surface]),
         [op |-> "commit", surface |-> wl_surface])

\* impl PointerHandler for Application: every event of the slice
RECURSIVE PointerHandler_pointer_frame(_, _)
PointerHandler_pointer_frame(r, events) ==
    IF events = <<>> THEN r
    ELSE PointerHandler_pointer_frame(
            InputCall(r, [op |-> "handle_pointer_event", event |-> Head(events)]),
            Tail(events))

\* impl KeyboardHandler for Application
KeyboardHandler_key(r, event, pressed, is_repeat) ==
    InputCall(r, [op |-> "handle_keyboard_event", event |-> event,
                  pressed |-> pressed, is_repeat |-> is_repeat])

KeyboardHandler_update_modifiers(r, modifiers) ==
    InputCall(r, [op |-> "update_modifiers", modifiers |-> modifiers])


\* SeatHandler::new_capability: a keyboard capability asks the seat for the
\* keyboard; a failure is only traced
SeatHandler_new_capability(r, capability) ==
    IF capability = "Keyboard" THEN Sent(r, [op |-> "get_keyboard"]) ELSE r

\* variant: the closed notification removes the first tracked window
Application_callback_closed_removes(r, cb, shm) ==
    CASE cb.op = "create_layer_surface" -> create_layer_surface(r, cb.arg)
      [] cb.op = "create_xdg_window" -> create_xdg_window(r, cb.arg)
      [] cb.op = "close_window" -> close_window(r, cb.arg)
      [] cb.op = "closed" -> close_window(r, 0)
      [] cb.op = "layer_configure" ->
            LayerShellHandler_configure(r, cb.arg.surface, cb.arg.new_size, shm)
      [] cb.op = "window_configure" ->
            WindowHandler_configure(r, cb.arg.surface, cb.arg.new_size, shm)
      [] OTHER -> r

\* a callback of the Application; arg carries the event's surface
Application_callback(r, cb, shm) ==
    CASE cb.op = "create_layer_surface" -> create_layer_surface(r, cb.arg)
      [] cb.op = "create_xdg_window" -> create_xdg_window(r, cb.arg)
      [] cb.op = "close_window" -> close_window(r, cb.arg)
      [] cb.op = "layer_configure" ->
            LayerShellHandler_configure(r, cb.arg.surface, cb.arg.new_size, shm)
      [] cb.op = "window_configure" ->
            WindowHandler_configure(r, cb.arg.surface, cb.arg.new_size, shm)
      [] cb.op = "scale_factor_changed" ->
            CompositorHandler_scale_factor_changed(r, cb.arg.surface,
                                                   cb.arg.new_factor)
      [] cb.op = "pointer_frame" -> PointerHandler_pointer_frame(r, cb.arg.events)
      [] cb.op = "press_key" -> KeyboardHandler_key(r, cb.arg.event, TRUE, FALSE)
      [] cb.op = "release_key" -> KeyboardHandler_key(r, cb.arg.event, FALSE, FALSE)
      [] cb.op = "repeat_key" -> KeyboardHandler_key(r, cb.arg.event, TRUE, TRUE)
      [] cb.op = "update_modifiers" ->
            KeyboardHandler_update_modifiers(r, cb.arg.modifiers)
      [] cb.op = "new_capability" ->
            SeatHandler_new_capability(r, cb.arg.capability)
      [] OTHER -> r

----------------------------------------------------------------------------

(* A container behind a shared handle (containers.rs 84-196) *)

\* Rc<RefCell<T>> around one container: whether the list of windows still
\* holds its handle, how many clones of the handle callers hold, the
\* RefCell's borrow flag, the calls in flight (innermost last, each with the
\* handle it was made on: the list's own or a clone), whether T was
\* dropped, and the call that returned last
Shared_new ==
    [registered |-> TRUE, clones |-> 0, borrowed |-> FALSE,
     inflight |-> <<>>, dropped |-> FALSE, last |-> None]

\* the handles a call can be made on
Handles == {"list", "clone"}

\* a call is in flight on the list's own handle: `fn f(&mut self)` of the
\* blanket impls borrows that handle, and with it the list, until it returns
on_list_handle(sh) ==
    \E k \in DOMAIN sh.inflight : sh.inflight[k].handle = "list"

\* the clones a call is in flight on: `fn f(&mut self)` borrows the clone
\* it is called on until it returns
clones_in_use(sh) ==
    Cardinality({k \in DOMAIN sh.inflight : sh.inflight[k].handle = "clone"})

\* Rc::strong_count: the list's handle and the clones callers hold.  The
\* blanket impls take `&mut self`; they clone nothing and drop no handle.
strong_count(sh) ==
    (IF sh.registered THEN 1 ELSE 0) + sh.clones

\* variant: the container is entered through the cell's raw pointer, with no
\* look at the borrow flag
borrow_mut_unguarded(sh, c) ==
    [sh |-> [sh EXCEPT !.borrowed = TRUE,
                       !.inflight = Append(@, [cb |-> c.cb, handle |-> c.handle,
                                               ran |-> FALSE, removal |-> FALSE])],
     panicked |-> FALSE]

\* `self.borrow_mut().f(..)` of the blanket impls, for the call c = [cb,
\* handle]: RefCell::borrow_mut panics with BorrowMutError while a RefMut is
\* live, else the call enters T
borrow_mut(sh, c) ==
    IF sh.borrowed THEN [sh |-> sh, panicked |-> TRUE] ELSE [sh |-> [sh EXCEPT !.borrowed = TRUE, !.inflight = Append(@, [cb |-> c.cb, handle |-> c.handle, ran |-> FALSE, removal |-> FALSE])], panicked |-> FALSE]

\* the body of the innermost call in flight has run on T
shared_ran(sh) ==
    IF sh.inflight = <<>> THEN sh
    ELSE [sh EXCEPT !.inflight[Len(sh.inflight)].ran = TRUE]

\* T is dropped when the last handle goes
drop_if_unreferenced(sh) ==
    [sh EXCEPT !.dropped = @ \/ strong_count(sh) = 0]

\* the end of `self.borrow_mut().f(..)`: the RefMut is dropped, and nothing
\* else; the handle the call was made on stays with its owner
shared_return(sh) ==
    [sh EXCEPT !.borrowed = FALSE,
               !.inflight = SubSeq(@, 1, Len(@) - 1),
               !.last = Some(sh.inflight[Len(sh.inflight)])]

\* the removal as close_window does it: `self.windows.remove(index)` takes
\* the handle out of the list and drops it at once, and T with it when no
\* clone is left; the calls in flight are marked as having seen a removal
shared_remove(sh) ==
    drop_if_unreferenced(
        [sh EXCEPT !.registered = FALSE,
                   !.inflight = [i \in DOMAIN @ |->
                                    [@[i] EXCEPT !.removal = TRUE]]])

(* The state machine *)

RECURSIVE InputEventsIn(_)
InputEventsIn(bs) ==
    IF bs = <<>> THEN 0 ELSE (Len(Head(bs)) - 1) + InputEventsIn(Tail(bs))

InitOver(I) ==
    /\ kind \in I.kinds
    /\ \E size \in I.sizes : surface = Construct(kind, size[1], size[2])
    /\ panicked = FALSE
    /\ pending = 0
    /\ inputsLeft = I.max_inputs
    /\ call = Callback("new", 0)
    /\ fx = <<>>
    /\ batches = <<>>
    /\ pushed = <<>>
    /\ queuedCount = 0
    /\ deliveredCount = 0
    /\ application = Application_new
    /\ shared = Shared_new
    /\ overflow_checks \in I.overflow_checks

\* One callback runs to completion on the event-loop thread.  delivered is 1
\* when the callback is a frame callback the compositor owed.
Handle(cb, env, delivered) ==
    \E m \in {Dispatch(kind, Run(surface), cb, env)} :
    /\ ~panicked
    /\ pending - delivered + m.requested <= MaxPending
    /\ m.s.iced_app.value \in -MaxValue..MaxValue
    /\ surface' = m.s
    /\ panicked' = m.panicked
    /\ pending' = pending - delivered + m.requested
    /\ call' = cb
    /\ fx' = m.fx
    /\ batches' = m.batches
    /\ pushed' = m.pushed
    /\ queuedCount' = queuedCount + Len(m.pushed)
    /\ deliveredCount' = deliveredCount + InputEventsIn(m.batches)
    /\ shared' = shared_ran(shared)
    /\ UNCHANGED <<kind, application, overflow_checks>>

\* a keyboard or pointer callback uses up one unit of the input budget
Spend == inputsLeft > 0 /\ inputsLeft' = inputsLeft - 1

Configure(I) ==
    \E cfg \in I.configures[kind], env \in I.envs :
        Handle(Callback("configure", cfg), env, 0) /\ UNCHANGED inputsLeft

ScaleFactorChanged(I) ==
    \E f \in I.scales, env \in I.envs :
        Handle(Callback("scale_factor_changed", f), env, 0)
        /\ UNCHANGED inputsLeft

Frame(I) ==
    /\ pending > 0
    /\ \E env \in I.envs :
        Handle(Callback("frame", 0), env, 1) /\ UNCHANGED inputsLeft

KeyboardEnter(I) ==
    \E env \in I.envs : Handle(Callback("enter", 0), env, 0) /\ Spend

KeyboardLeave(I) ==
    \E env \in I.envs : Handle(Callback("leave", 0), env, 0) /\ Spend

PressKey(I) ==
    \E e \in I.keys, env \in I.envs :
        Handle(Callback("press_key", e), env, 0) /\ Spend

ReleaseKey(I) ==
    \E e \in I.keys, env \in I.envs :
        Handle(Callback("release_key", e), env, 0) /\ Spend

RepeatKey(I) ==
    \E e \in I.keys, env \in I.envs :
        Handle(Callback("repeat_key", e), env, 0) /\ Spend

UpdateModifiers(I) ==
    \E mods \in I.modifiers, env \in I.envs :
        Handle(Callback("update_modifiers", mods), env, 0) /\ Spend

PointerFrame(I) ==
    \E e \in I.pointers, env \in I.envs :
        Handle(Callback("pointer_frame", e), env, 0) /\ Spend

\* callbacks the containers leave at the traits' empty defaults; they
\* consult neither the GPU nor the toolkit
IgnoredCallbacks ==
    {"transform_changed", "surface_enter", "surface_leave", "closed", "done",
     "request_close"}

Ignored(I) ==
    \E op \in IgnoredCallbacks :
        Handle(Callback(op, 0), Env(TRUE, UiQuiet), 0) /\ UNCHANGED inputsLeft

NextOver(I) ==
    \/ Configure(I)
    \/ ScaleFactorChanged(I)
    \/ Frame(I)
    \/ KeyboardEnter(I)
    \/ KeyboardLeave(I)
    \/ PressKey(I)
    \/ ReleaseKey(I)
    \/ RepeatKey(I)
    \/ UpdateModifiers(I)
    \/ PointerFrame(I)
    \/ Ignored(I)

\* Protocol object identities.  One more than the windows tracked at once,
\* so that an event can always name a surface that is not tracked.
SurfaceIds == {1, 2, 3}

\* the identity the compositor connection gives a new surface: the least
\* one no live surface holds
fresh_surface(a) ==
    CHOOSE id \in SurfaceIds \ TrackedSurfaces(a) :
        \A other \in SurfaceIds \ TrackedSurfaces(a) : id <= other

\* what shared memory does in one configure: nothing fails, or one of the
\* three `expect`s does
ShmOutcomes == {"ok", "SlotPool", "create_buffer", "attach"}

AppLayerConfigures == {<<300, 200>>}
AppWindowConfigures == {<<None, Some(200)>>}

\* One Application callback runs to completion on the event-loop thread.
AppHandle(cb, shm) ==
    \E r \in {Application_callback(AppRunIn(application, overflow_checks),
                                     cb, shm)} :
    /\ ~panicked
    /\ Len(r.app.input_state) <= MaxCalls
    /\ application' = r.app
    /\ panicked' = r.panicked
    /\ call' = cb
    /\ fx' = r.fx
    /\ UNCHANGED <<kind, surface, pending, batches, pushed, queuedCount,
                   deliveredCount, shared, overflow_checks>>

AppCreateLayerSurface ==
    /\ Len(application.windows) < Cardinality(SurfaceIds) - 1
    /\ AppHandle(Callback("create_layer_surface", fresh_surface(application)), "ok")
    /\ UNCHANGED inputsLeft

AppCreateXdgWindow ==
    /\ Len(application.windows) < Cardinality(SurfaceIds) - 1
    /\ AppHandle(Callback("create_xdg_window", fresh_surface(application)), "ok")
    /\ UNCHANGED inputsLeft

AppCloseWindow ==
    \E index \in 0..(Cardinality(SurfaceIds) - 1) :
        AppHandle(Callback("close_window", index), "ok") /\ UNCHANGED inputsLeft

LayerConfigure(sizes) ==
    \E target \in SurfaceIds, cfg \in sizes, shm \in ShmOutcomes :
        AppHandle(Callback("layer_configure",
                           [surface |-> target, new_size |-> cfg]), shm)
        /\ UNCHANGED inputsLeft

WindowConfigure(sizes) ==
    \E target \in SurfaceIds, cfg \in sizes, shm \in ShmOutcomes :
        AppHandle(Callback("window_configure",
                           [surface |-> target, new_size |-> cfg]), shm)
        /\ UNCHANGED inputsLeft

AppScaleFactorChanged ==
    \E target \in SurfaceIds :
        AppHandle(Callback("scale_factor_changed",
                           [surface |-> target, new_factor |-> 2]), "ok")
        /\ UNCHANGED inputsLeft

\* callbacks the Application leaves empty
AppIgnoredCallbacks == {"closed", "request_close", "frame", "enter"}

AppIgnored ==
    \E op \in AppIgnoredCallbacks, target \in SurfaceIds :
        AppHandle(Callback(op, [surface |-> target]), "ok")
        /\ UNCHANGED inputsLeft


\* the seat announces a capability
AppNewCapability ==
    \E capability \in {"Keyboard", "Pointer"} :
        AppHandle(Callback("new_capability", [capability |-> capability]), "ok")
        /\ UNCHANGED inputsLeft

\* the keyboard callbacks name no surface
AppKey ==
    \E op \in {"press_key", "release_key", "repeat_key"} :
        AppHandle(Callback(op, [event |-> [keysym |-> "c", utf8 |-> Some("c"),
                                           raw_code |-> 54]]), "ok")
        /\ Spend

AppUpdateModifiers ==
    \E mods \in WaylandModifiers :
        AppHandle(Callback("update_modifiers", [modifiers |-> mods]), "ok")
        /\ Spend

AppPointerFrame ==
    \E events \in {<<>>, <<PointerEvent("Motion", 0, NoScroll, NoScroll)>>} :
        AppHandle(Callback("pointer_frame", [events |-> events]), "ok")
        /\ Spend

\* the iced container stays as constructed; few device inputs
AppInputs == [PacingInputs EXCEPT !.max_inputs = MaxGeometryInputs]

AppInit == InitOver(AppInputs)

AppNext ==
    \/ AppCreateLayerSurface
    \/ AppCreateXdgWindow
    \/ AppCloseWindow
    \/ LayerConfigure(AppLayerConfigures)
    \/ WindowConfigure(AppWindowConfigures)
    \/ AppScaleFactorChanged
    \/ AppIgnored
    \/ AppNewCapability
    \/ AppKey
    \/ AppUpdateModifiers
    \/ AppPointerFrame

AppSpec == AppInit /\ [][AppNext]_vars

(* The configure handlers of the Application on sizes whose arithmetic     *)
(* overflows, in both builds: windows are created and closed, and          *)
(* configured to the sizes of AppSpec or to the overflowing one.           *)

\* (2^30 + 1, u32::MAX): the pool size leaves the usize range and the stride
\* the i32 range
OverflowingSize == <<1073741825, -1>>

ConfigureInputs == [AppInputs EXCEPT !.overflow_checks = BOOLEAN]

ConfigureInit == InitOver(ConfigureInputs)

ConfigureNext ==
    \/ AppCreateLayerSurface
    \/ AppCreateXdgWindow
    \/ AppCloseWindow
    \/ LayerConfigure(AppLayerConfigures \cup {OverflowingSize})
    \/ WindowConfigure(AppWindowConfigures
                       \cup {<<Some(OverflowingSize[1]),
                                Some(OverflowingSize[2])>>})

ConfigureSpec == ConfigureInit /\ [][ConfigureNext]_vars


\* the callbacks the blanket impls pass on to the container
SharedCallbacks(I) ==
    {Callback("enter", 0), Callback("leave", 0), Callback("frame", 0)}
    \cup {Callback(op, e) : op \in {"press_key", "release_key", "repeat_key"},
                            e \in I.keys}
    \cup {Callback("update_modifiers", mods) : mods \in I.modifiers}
    \cup {Callback("pointer_frame", e) : e \in I.pointers}
    \cup {Callback("scale_factor_changed", f) : f \in I.scales}
    \cup {Callback("configure", cfg) : cfg \in I.configures[kind]}
    \cup {Callback(op, 0) : op \in IgnoredCallbacks}

\* the keyboard and pointer callbacks, which use up the input budget
DeviceCallbacks ==
    {"enter", "leave", "press_key", "release_key", "repeat_key",
     "update_modifiers", "pointer_frame"}

\* who holds a clone of the handle: the caller that dispatches to the
\* container and the handler that calls back into it
CloneHolders == {"caller", "handler"}

\* One of them takes a clone of a handle that exists (Rc::clone).
SharedClone ==
    /\ ~panicked
    /\ strong_count(shared) > 0
    /\ shared.clones < Cardinality(CloneHolders)
    /\ shared' = [shared EXCEPT !.clones = @ + 1]
    /\ UNCHANGED <<kind, surface, panicked, pending, inputsLeft, call, fx,
                   batches, pushed, queuedCount, deliveredCount, application,
                   overflow_checks>>

\* One of them lets go of a clone no call is in flight on; T is dropped
\* with the last handle.
SharedDropClone ==
    /\ ~panicked
    /\ shared.clones > clones_in_use(shared)
    /\ shared' = drop_if_unreferenced([shared EXCEPT !.clones = @ - 1])
    /\ UNCHANGED <<kind, surface, panicked, pending, inputsLeft, call, fx,
                   batches, pushed, queuedCount, deliveredCount, application,
                   overflow_checks>>

\* A callback is made on a handle of the container, the list's own or a
\* clone, in the list or not, and the blanket impl borrows the container.
\* With a call in flight this is the handler calling back into its own
\* container, which it can only do on a handle no call is in flight on:
\* `&mut self` keeps the handle of the call in flight borrowed.
SharedEnter(I) ==
    \E cb \in SharedCallbacks(I), handle \in Handles :
    \E r \in {borrow_mut(shared, [cb |-> cb, handle |-> handle])} :
        /\ ~panicked
        /\ handle = "list" => shared.registered /\ ~on_list_handle(shared)
        /\ handle = "clone" => shared.clones > clones_in_use(shared)
        /\ Len(shared.inflight) < MaxDepth
        /\ IF cb.op \in DeviceCallbacks THEN Spend ELSE UNCHANGED inputsLeft
        /\ shared' = r.sh
        /\ panicked' = r.panicked
        /\ UNCHANGED <<kind, surface, pending, call, fx, batches, pushed,
                       queuedCount, deliveredCount, application,
                       overflow_checks>>

\* the container's handler runs; a frame callback that was owed is taken
\* off the outstanding ones
SharedBody(I) ==
    /\ shared.inflight # <<>>
    /\ ~shared.inflight[Len(shared.inflight)].ran
    /\ \E env \in I.envs :
          Handle(shared.inflight[Len(shared.inflight)].cb, env,
                 IF shared.inflight[Len(shared.inflight)].cb.op = "frame"
                    /\ pending > 0 THEN 1 ELSE 0)
    /\ UNCHANGED inputsLeft

\* the blanket impl returns to its caller: the borrow ends
SharedReturn ==
    /\ ~panicked
    /\ shared.inflight # <<>>
    /\ shared.inflight[Len(shared.inflight)].ran
    /\ shared' = shared_return(shared)
    /\ UNCHANGED <<kind, surface, panicked, pending, inputsLeft, call, fx,
                   batches, pushed, queuedCount, deliveredCount, application,
                   overflow_checks>>

\* The container is removed from the list, between two dispatches or from
\* inside a handler.  `remove` takes `&mut` of the list, which is not to be
\* had while a call holds `&mut` of the list's own handle: from inside a
\* handler the removal is of a container whose call runs on a clone.
SharedRemove ==
    /\ ~panicked
    /\ shared.registered
    /\ ~on_list_handle(shared)
    /\ shared' = shared_remove(shared)
    /\ UNCHANGED <<kind, surface, panicked, pending, inputsLeft, call, fx,
                   batches, pushed, queuedCount, deliveredCount, application,
                   overflow_checks>>

\* one value of each device input, few of them
SharedInputs ==
    [PacingInputs EXCEPT
        !.pointers = {PointerEvent("Motion", 0, NoScroll, NoScroll)},
        !.envs = {Env(FALSE, UiQuiet), Env(TRUE, UiQuiet)},
        !.max_inputs = MaxGeometryInputs]

SharedInit == InitOver(SharedInputs)

SharedNext ==
    \/ SharedEnter(SharedInputs)
    \/ SharedBody(SharedInputs)
    \/ SharedReturn
    \/ SharedRemove
    \/ SharedClone
    \/ SharedDropClone

SharedSpec == SharedInit /\ [][SharedNext]_vars

Init == InitOver(Inputs)
Next == NextOver(Inputs)
Spec == Init /\ [][Next]_vars

\* the compositor delivers every frame callback it owes
LiveInit == InitOver(PacingInputs)
LiveNext == NextOver(PacingInputs)
LiveSpec ==
    LiveInit /\ [][LiveNext]_vars /\ WF_vars(Frame(PacingInputs))

GeometryInit == InitOver(GeometryInputs)
GeometryNext == NextOver(GeometryInputs)
GeometrySpec == GeometryInit /\ [][GeometryNext]_vars

PopupInit == InitOver(PopupInputs)
PopupNext == NextOver(PopupInputs)
PopupSpec == PopupInit /\ [][PopupNext]_vars

ToolkitInit == InitOver(ToolkitInputs)
ToolkitNext == NextOver(ToolkitInputs)
ToolkitSpec == ToolkitInit /\ [][ToolkitNext]_vars

KeyboardInit == InitOver(KeyboardInputs)
KeyboardNext == NextOver(KeyboardInputs)
KeyboardSpec == KeyboardInit /\ [][KeyboardNext]_vars

PointerInit == InitOver(PointerInputs)
PointerNext == NextOver(PointerInputs)
PointerSpec == PointerInit /\ [][PointerNext]_vars

----------------------------------------------------------------------------

CursorInit == InitOver(CursorInputs)
CursorNext == NextOver(CursorInputs)
CursorSpec == CursorInit /\ [][CursorNext]_vars

(* Reading the last handler's log *)

CountFx(op) == Cardinality({k \in DOMAIN fx : fx[k].op = op})

\* render passes started / frames presented by the last handler
RenderPasses == CountFx("get_current_texture")
FramesPresented == CountFx("texture_present")

InputCallbacks ==
    {"enter", "leave", "press_key", "release_key", "update_modifiers",
     "repeat_key", "pointer_frame"}

\* the translator call each forwarded callback makes
TranslatorCall(op) ==
    CASE op = "enter" -> "input_keyboard_enter"
      [] op = "leave" -> "input_keyboard_leave"
      [] op \in {"press_key", "release_key", "repeat_key"} -> "input_keyboard_event"
      [] op = "update_modifiers" -> "input_update_modifiers"
      [] op = "pointer_frame" -> "input_pointer_event"

----------------------------------------------------------------------------
(* Claims *)

\* C1: a render pass requests the next frame callback if and only if the
\* queue it drained was non-empty: a handler whose render pass handed the
\* toolkit a batch with at least one input event makes exactly one frame
\* request, every other handler makes none, and configure (which renders
\* with nothing queued) makes none.
C1_IdleRearm ==
    /\ Len(batches) <= 1
    /\ CountFx("frame") =
          IF batches # <<>> /\ Len(batches[1]) > 1 THEN 1 ELSE 0
    /\ call.op = "configure" => batches \in {<<>>, <<<<RedrawRequested>>>>}
    /\ call.op = "configure" => CountFx("frame") = 0

C1_Witness ==
    /\ call.op = "pointer_frame"
    /\ call.arg.kind = "Motion"
    /\ FramesPresented = 1
    /\ CountFx("frame") = 1

\* no frame callback is outstanding, or the process has aborted
Quiescent == panicked \/ pending = 0

\* C2: rendering does not self-perpetuate.  A delivered frame callback never
\* leaves more callbacks outstanding than before it, and once device input
\* has stopped the surface reaches a state with no outstanding frame
\* callback (or the process has aborted in texture acquisition), given that
\* the compositor delivers the callbacks it owes.
C2_NoSelfPerpetuation ==
    /\ [][call'.op = "frame" => pending' = pending - 1]_vars
    /\ (inputsLeft = 0) ~> Quiescent

C2_Witness ==
    /\ call.op = "frame"
    /\ FramesPresented = 1
    /\ inputsLeft = 0
    /\ pending = 0
    /\ ~panicked

\* C3 as claimed: a frame is presented only by configure or by a delivered
\* frame callback.
C3_OnlyOnFrameGrant ==
    FramesPresented > 0 => call.op \in {"configure", "frame"}

\* C3 amended: a render pass is started only by configure, a scale-factor
\* change, a delivered frame callback or a keyboard/pointer/modifier callback;
\* each keyboard/pointer/modifier callback starts exactly one render pass
\* itself, with or without a frame callback outstanding, and the other
\* callbacks start none.
C3_RenderTriggers ==
    /\ RenderPasses > 0 =>
          call.op \in {"configure", "scale_factor_changed", "frame"}
                      \cup InputCallbacks
    /\ call.op \in InputCallbacks \cup {"configure", "frame"} => RenderPasses = 1
    /\ call.op \in IgnoredCallbacks \cup {"new"} => fx = <<>>

C3_Witness ==
    /\ call.op = "press_key"
    /\ FramesPresented = 1
    /\ pending = 1

\* C4: the pending queue is drained and cleared once per render pass.  After
\* every handler that did not abort the queue is empty; every event ever
\* queued has been handed to the toolkit exactly once or is still queued
\* (which happens only when the process aborted); no handler hands over more
\* than one batch.
C4_QueueDrained ==
    /\ ~panicked => surface.input_state.events = <<>>
    /\ queuedCount = deliveredCount + Len(surface.input_state.events)
    /\ Len(batches) <= 1
    /\ FramesPresented = 1 => batches # <<>> /\ Len(batches[1]) = Len(pushed) + 1

C4_Witness ==
    /\ ~panicked
    /\ queuedCount = 2
    /\ deliveredCount = 2
    /\ pushed # <<>>

\* C5: the batch handed to the toolkit is the queued events in the order
\* they were queued, followed by exactly one redraw-requested marker, which
\* is its last element; two raw pointer events translated one after the
\* other reach the batch in that order.
C5_OrderPreserved ==
    \A k \in DOMAIN batches :
        /\ batches[k] # <<>>
        /\ batches[k][Len(batches[k])] = RedrawRequested
        /\ \A j \in 1..(Len(batches[k]) - 1) : batches[k][j] # RedrawRequested
        /\ SubSeq(batches[k], 1, Len(batches[k]) - 1) = pushed
    /\ \A e1 \in PointerEvents, e2 \in PointerEvents :
          collect_events(Run([surface EXCEPT !.input_state =
              input_handle_pointer_event(
                  input_handle_pointer_event(surface.input_state, e1), e2)])).events
          = surface.input_state.events
              \o input_handle_pointer_event(WaylandToIcedInput_new, e1).events
              \o input_handle_pointer_event(WaylandToIcedInput_new, e2).events
              \o <<RedrawRequested>>

C5_Witness ==
    /\ call.op = "pointer_frame"
    /\ call.arg.kind = "Motion"
    /\ batches = << <<[type |-> "CursorMoved",
                        position |-> Point_new(call.arg.position)],
                      RedrawRequested>> >>

\* the logical size a configure callback asks for
RequestedSize ==
    IF kind = "Window"
    THEN <<map_or(call.arg[1], 256), map_or(call.arg[2], 256)>>
    ELSE <<call.arg[1], call.arg[2]>>

\* every forwarded keyboard/pointer callback the model delivers
ForwardedCallbacks ==
    {Callback("enter", 0), Callback("leave", 0)}
    \cup {Callback(op, e) :
             op \in {"press_key", "release_key", "repeat_key"}, e \in KeyEvents}
    \cup {Callback("update_modifiers", mods) : mods \in WaylandModifiers}
    \cup {Callback("pointer_frame", e) : e \in PointerEvents}

ToolkitOutcomes ==
    {Env(FALSE, UiQuiet), Env(TRUE, UiQuiet), Env(TRUE, UiPointer)}

\* C6: for each of the four surface kinds a forwarded keyboard/pointer
\* callback first updates the owned translator and then runs exactly one
\* render pass; from the same state the four kinds' handlers for the same
\* callback give the same surface state and the same effects, and the four
\* constructors give the same state, so equal callback sequences give equal
\* states.
C6_KindsForwardAlike ==
    /\ call.op \in InputCallbacks =>
          /\ Len(fx) >= 2
          /\ fx[1].op = TranslatorCall(call.op)
          /\ fx[2].op = "get_current_texture"
          /\ RenderPasses = 1
    /\ \A cb \in ForwardedCallbacks, env \in ToolkitOutcomes :
          /\ IcedLayerSurface_callback(Run(surface), cb, env)
                = IcedWindow_callback(Run(surface), cb, env)
          /\ IcedPopup_callback(Run(surface), cb, env)
                = IcedWindow_callback(Run(surface), cb, env)
          /\ IcedSubsurface_callback(Run(surface), cb, env)
                = IcedWindow_callback(Run(surface), cb, env)
    /\ \A k \in Kinds :
          Construct(k, surface.width, surface.height)
             = IcedWindow_new(surface.width, surface.height)

C6_Witness ==
    /\ kind = "Subsurface"
    /\ call.op = "press_key"
    /\ fx[1].op = "input_keyboard_event"
    /\ FramesPresented = 1
    /\ pushed # <<>>

\* C7: configure clamps both dimensions to at least 1, then sets the
\* translator's screen size to the clamped size, then reconfigures the
\* presentation surface at size x scale physical pixels, then runs exactly
\* one render pass, whether or not a frame callback is outstanding.
C7_ConfigureOrder ==
    call.op = "configure" =>
        /\ Len(fx) >= 4
        /\ surface.width = max(RequestedSize[1], 1)
        /\ surface.height = max(RequestedSize[2], 1)
        /\ fx[2] = [op |-> "set_screen_size", width |-> surface.width,
                    height |-> surface.height]
        /\ surface.input_state.screen_width = surface.width
        /\ surface.input_state.screen_height = surface.height
        /\ fx[3] = [op |-> "surface_configure",
                    width |-> surface.width * surface.scale_factor,
                    height |-> surface.height * surface.scale_factor]
        /\ surface.surface_config =
              Some([width |-> surface.width * surface.scale_factor,
                    height |-> surface.height * surface.scale_factor])
        /\ fx[4].op = "get_current_texture"
        /\ RenderPasses = 1
        /\ CountFx("set_screen_size") = 1
        /\ CountFx("surface_configure") = 1

C7_Witness ==
    /\ call.op = "configure"
    /\ surface.scale_factor = 2
    /\ fx[3] = [op |-> "surface_configure", width |-> 600, height |-> 400]
    /\ FramesPresented = 1
    /\ pending = 0

\* C8: after a configure whose payload has width = 0 or height = 0 the
\* logical width and height are both at least 1: a zero dimension becomes 1,
\* the other one is kept, and a layer-surface configure(0, 0) yields (1, 1).
C8_ZeroClamped ==
    /\ (call.op = "configure" /\ (RequestedSize[1] = 0 \/ RequestedSize[2] = 0)) =>
          /\ surface.width >= 1
          /\ surface.height >= 1
          /\ surface.width = (IF RequestedSize[1] = 0 THEN 1 ELSE RequestedSize[1])
          /\ surface.height = (IF RequestedSize[2] = 0 THEN 1 ELSE RequestedSize[2])
          /\ ~panicked => FramesPresented = 1
    /\ (kind = "LayerSurface" /\ call = Callback("configure", <<0, 0>>)) =>
          surface.width = 1 /\ surface.height = 1

C8_Witness ==
    /\ kind = "LayerSurface"
    /\ call = Callback("configure", <<0, 0>>)
    /\ surface.width = 1
    /\ surface.height = 1
    /\ ~panicked

\* C9 as claimed: in every reachable state, the state right after
\* construction included, the logical width and height are not zero.
C9_NeverZero == surface.width # 0 /\ surface.height # 0

\* C10: a window configure takes 256 for exactly each dimension the
\* compositor left unspecified and the supplied value for each specified
\* one: (None, Some(300)) yields (256, 300) and (None, None) yields
\* (256, 256).
C10_WindowDefault ==
    (kind = "Window" /\ call.op = "configure") =>
        /\ surface.width =
              (IF call.arg[1] = None THEN 256 ELSE unwrap(call.arg[1]))
        /\ surface.height =
              (IF call.arg[2] = None THEN 256 ELSE unwrap(call.arg[2]))
        /\ call.arg = <<None, Some(300)>> =>
              surface.width = 256 /\ surface.height = 300
        /\ call.arg = <<None, None>> =>
              surface.width = 256 /\ surface.height = 256

C10_Witness ==
    /\ kind = "Window"
    /\ call = Callback("configure", <<None, Some(300)>>)
    /\ surface.width = 256
    /\ surface.height = 300
    /\ FramesPresented = 1

\* C11 as claimed: a popup configure whose payload carries a negative
\* dimension leaves the logical width and height as they were before it.
C11_NegativeKeepsSize ==
    [][(kind = "Popup" /\ call'.op = "configure"
          /\ (call'.arg[1] < 0 \/ call'.arg[2] < 0))
       => (surface'.width = surface.width /\ surface'.height = surface.height)]_vars

\* C12 as claimed: handling a configure never aborts the process, for every
\* surface kind, container implementation, payload and prior state.
C12_ConfigureNeverFatal ==
    /\ call.op = "configure" => ~panicked
    /\ \A cfg \in WindowConfigures :
          ~EguiWindow_configure(EguiWindow_new, cfg).panicked

\* C13 as claimed: scale_factor_changed(factor) with max(factor, 1) equal to
\* the current scale factor changes no state and makes no outbound call
\* (no buffer-scale request, no surface reconfiguration, no render pass);
\* otherwise it stores max(factor, 1), reconfigures the presentation
\* surface once and runs one render pass.
C13_ScaleNoOpOrApply ==
    [][call'.op = "scale_factor_changed" =>
         IF max(call'.arg, 1) = surface.scale_factor
         THEN surface' = surface /\ fx' = <<>> /\ pending' = pending
         ELSE /\ surface'.scale_factor = max(call'.arg, 1)
              /\ Cardinality({k \in DOMAIN fx' :
                                 fx'[k].op = "surface_configure"}) = 1
              /\ Cardinality({k \in DOMAIN fx' :
                                 fx'[k].op = "get_current_texture"}) = 1]_vars

\* the toolkit-facing calls of a log, in order
ToolkitCalls(log) ==
    SelectSeq(log, LAMBDA e : e.op \in {"build", "update", "app_update", "draw"})

\* what a run of update_and_draw from the current surface state logs when
\* the toolkit answers ui
UpdateAndDrawLog(ui) ==
    ToolkitCalls(update_and_draw(render_locals(Run(surface)), ui).fx)

\* the counter after the messages: one up per Increment, one down per
\* Decrement
CounterAfter(value, messages) ==
    value + Cardinality({k \in DOMAIN messages : messages[k] = "Increment"})
          - Cardinality({k \in DOMAIN messages : messages[k] = "Decrement"})

\* C14: in each render pass the UI is drawn exactly once and the drawn state
\* reflects all messages of the pass.  Without messages the toolkit sees
\* build, update, draw.  With messages it sees build, update, one
\* application update per message in emission order, a second build of the
\* updated application, and one draw of that rebuilt UI.
C14_DrawReflectsMessages ==
    /\ RenderPasses = 1 /\ ~panicked =>
          /\ CountFx("draw") = 1
          /\ CountFx("build") = (IF CountFx("app_update") = 0 THEN 1 ELSE 2)
          /\ \A k \in DOMAIN fx :
                fx[k].op = "draw" => fx[k].app = surface.iced_app.value
    /\ \A ui \in UiOutcomes :
          UpdateAndDrawLog(ui) =
             IF ui.messages = <<>>
             THEN << [op |-> "build", app |-> surface.iced_app.value],
                     [op |-> "update",
                      cursor |-> Point_new(surface.input_state.pointer_pos)],
                     [op |-> "draw", app |-> surface.iced_app.value] >>
             ELSE << [op |-> "build", app |-> surface.iced_app.value],
                     [op |-> "update",
                      cursor |-> Point_new(surface.input_state.pointer_pos)] >>
                  \o [k \in DOMAIN ui.messages |->
                        [op |-> "app_update", message |-> ui.messages[k]]]
                  \o << [op |-> "build",
                         app |-> CounterAfter(surface.iced_app.value, ui.messages)],
                        [op |-> "draw",
                         app |-> CounterAfter(surface.iced_app.value, ui.messages)] >>
    /\ \A ui \in UiOutcomes :
          update_and_draw(render_locals(Run(surface)), ui).s.iced_app.value
             = CounterAfter(surface.iced_app.value, ui.messages)

C14_Witness ==
    /\ call.op = "pointer_frame"
    /\ ToolkitCalls(fx) =
          << [op |-> "build", app |-> 0],
             [op |-> "update", cursor |-> Point_new(<<10, 20>>)],
             [op |-> "app_update", message |-> "Decrement"],
             [op |-> "app_update", message |-> "Increment"],
             [op |-> "app_update", message |-> "Increment"],
             [op |-> "build", app |-> 1],
             [op |-> "draw", app |-> 1] >>
    /\ surface.iced_app.value = 1

\* positions of the calls of op in a log
PositionsIn(log, op) == {k \in DOMAIN log : log[k].op = op}

\* textures acquired by the last handler
TexturesAcquired ==
    Cardinality({k \in DOMAIN fx :
                    fx[k] = [op |-> "get_current_texture", ok |-> TRUE]})

\* in a log: one present of the texture, after every draw and after the
\* renderer's submission, and before any frame request
PresentedOnceAfterDraw(log) ==
    /\ Cardinality(PositionsIn(log, "texture_present")) = 1
    /\ Cardinality(PositionsIn(log, "renderer_present")) = 1
    /\ PositionsIn(log, "draw") # {}
    /\ \A p \in PositionsIn(log, "texture_present") :
          /\ \A d \in PositionsIn(log, "draw") \cup PositionsIn(log, "build")
                      \cup PositionsIn(log, "app_update") : d < p
          /\ \A r \in PositionsIn(log, "renderer_present") : r < p
          /\ \A f \in PositionsIn(log, "frame") : p < f

\* C15: every render pass that acquires a texture presents it exactly once,
\* after drawing, on the no-message and on the message path, whether or not
\* it requests the next frame; a pass that acquires none presents nothing.
C15_PresentOnce ==
    /\ FramesPresented = TexturesAcquired
    /\ TexturesAcquired <= 1
    /\ TexturesAcquired = 1 => PresentedOnceAfterDraw(fx)
    /\ is_some(surface.surface_config) /\ ~panicked =>
          \A ui \in UiOutcomes :
             PresentedOnceAfterDraw(render(Run(surface), Env(TRUE, ui)).fx)

C15_Witness ==
    /\ call.op = "pointer_frame"
    /\ CountFx("app_update") = 3
    /\ FramesPresented = 1
    /\ CountFx("frame") = 1
    /\ fx[Len(fx) - 2].op = "texture_present"

\* the cursor-shape requests of a log, in order
CursorRequests(log) == SelectSeq(log, LAMBDA e : e.op = "set_cursor")

\* one update_and_draw from surface state s under toolkit answer ui
Pass(s, ui) == update_and_draw(render_locals(Run(s)), ui)

\* C16: a cursor-shape request is issued in a render pass if and only if
\* the mouse interaction the toolkit reports in that pass differs from the
\* stored one; the stored value is then the reported one, so the next pass
\* reporting the same value issues no request.  Over the run, a handler
\* issues one request exactly when it changes the stored value.
C16_CursorOncePerChange ==
    /\ [][Len(CursorRequests(fx')) =
             IF surface'.mouse_interaction # surface.mouse_interaction
             THEN 1 ELSE 0]_vars
    /\ [](\A ui \in UiOutcomes :
            /\ CursorRequests(Pass(surface, ui).fx) =
                  IF ui.state = "Updated"
                     /\ ui.mouse_interaction # surface.mouse_interaction
                  THEN <<[op |-> "set_cursor",
                          interaction |-> ui.mouse_interaction]>>
                  ELSE <<>>
            /\ Pass(surface, ui).s.mouse_interaction =
                  IF ui.state = "Updated" THEN ui.mouse_interaction
                  ELSE surface.mouse_interaction
            /\ CursorRequests(Pass(Pass(surface, ui).s, ui).fx) = <<>>)

C16_Witness ==
    /\ surface.mouse_interaction = "Pointer"
    /\ CountFx("app_update") = 1
    /\ FramesPresented = 1
    /\ CursorRequests(fx) = <<>>

\* C17 as claimed: a non-repeat press of c (x, v) while ctrl is held queues
\* exactly one synthetic copy (cut, paste) key event and no literal
\* key-press event for that key.
C17_ClipboardChord ==
    (call.op = "press_key" /\ call.arg.keysym \in {"c", "x", "v"}
       /\ "CTRL" \in surface.input_state.modifiers) =>
        /\ Len(pushed) = 1
        /\ pushed[1].type = "KeyPressed"
        /\ pushed[1].key =
              [named |-> CASE call.arg.keysym = "c" -> "Copy"
                           [] call.arg.keysym = "x" -> "Cut"
                           [] call.arg.keysym = "v" -> "Paste"]

\* C18 as claimed: a repeat event without protocol-supplied text that
\* follows a press carrying text T is queued with text T.
C18_RepeatTextFallback ==
    [][(call.op = "press_key" /\ is_some(call.arg.utf8)
          /\ call'.op = "repeat_key" /\ call'.arg.keysym = call.arg.keysym
          /\ call'.arg.utf8 = None)
       => (Len(pushed') = 1 /\ pushed'[1].text = call.arg.utf8)]_vars

\* control characters among the texts of the modelled key events
ControlCharacters == {"\r", "\n", "\t"}

\* C19 as claimed: no queued key-press or key-repeat event carries a control
\* character as its text.
C19_NoControlText ==
    \A k \in DOMAIN pushed :
        pushed[k].type = "KeyPressed" =>
            (pushed[k].text = None \/ unwrap(pushed[k].text) \notin ControlCharacters)

\* key symbols: some in both tables, some in one, some in neither
SampleKeysyms ==
    {e.keysym : e \in KeyboardKeyEvents}
    \cup {"BackSpace", "Escape", "KP_Enter", "Shift_L", "_1", "X", "F35",
          "XF86_Video", "NoSymbol", "ssharp"}

\* the event a key callback queues, by kind of callback
QueuedKeyEvent(i, event, pressed, repeat) ==
    IF pressed
    THEN [type |-> "KeyPressed",
          key |-> keysym_to_iced_key(event.keysym),
          location |-> keysym_location(event.keysym),
          modifiers |-> i.modifiers, text |-> event.utf8,
          modified_key |-> keysym_to_iced_key(event.keysym),
          physical_key |-> keysym_to_physical_key(event.keysym, event.raw_code),
          repeat |-> repeat]
    ELSE [type |-> "KeyReleased",
          key |-> keysym_to_iced_key(event.keysym),
          location |-> keysym_location(event.keysym),
          modifiers |-> i.modifiers,
          physical_key |-> keysym_to_physical_key(event.keysym, event.raw_code),
          modified_key |-> keysym_to_iced_key(event.keysym)]

KeyCallbackModes == {<<TRUE, FALSE>>, <<FALSE, FALSE>>, <<TRUE, TRUE>>}

\* C20: the key mappers are total, with an explicit unidentified value for a
\* symbol outside the table, and every press/release/repeat call appends
\* exactly one event to the pending queue, in receipt order, whether or not
\* the symbol is mapped.
C20_KeyMappingTotal ==
    /\ \A keysym \in SampleKeysyms, raw_code \in {49, 244} :
          /\ DOMAIN keysym_to_iced_key(keysym) = {"named"}
          /\ DOMAIN keysym_to_physical_key(keysym, raw_code) = {"code", "xkb"}
          /\ keysym \in {"dead_grave", "XF86_Battery", "NoSymbol", "ssharp"} =>
                /\ keysym_to_iced_key(keysym) = [named |-> "Unidentified"]
                /\ keysym_to_physical_key(keysym, raw_code) =
                      [code |-> "Unidentified", xkb |-> raw_code]
    /\ call.op \in {"press_key", "release_key", "repeat_key"} =>
          pushed = <<QueuedKeyEvent(surface.input_state, call.arg,
                                    call.op # "release_key",
                                    call.op = "repeat_key")>>
    /\ \A e1 \in KeyboardKeyEvents, m1 \in KeyCallbackModes,
          e2 \in {e \in KeyboardKeyEvents : e.keysym \in {"dead_grave", "c"}},
          m2 \in {<<TRUE, FALSE>>, <<FALSE, FALSE>>} :
          input_handle_keyboard_event(
              input_handle_keyboard_event(surface.input_state, e1, m1[1], m1[2]),
              e2, m2[1], m2[2]).events
          = surface.input_state.events
               \o <<QueuedKeyEvent(surface.input_state, e1, m1[1], m1[2]),
                    QueuedKeyEvent(surface.input_state, e2, m2[1], m2[2])>>

C20_Witness ==
    /\ call.op = "press_key"
    /\ call.arg.keysym = "dead_grave"
    /\ Len(pushed) = 1
    /\ pushed[1].key = [named |-> "Unidentified"]
    /\ pushed[1].physical_key = [code |-> "Unidentified", xkb |-> 49]
    /\ batches = <<pushed \o <<RedrawRequested>> >>

\* the modifier set a protocol modifier record flags
FlaggedModifiers(wayland_mods) ==
    {n \in {"SHIFT", "CTRL", "ALT"} :
        \/ n = "SHIFT" /\ wayland_mods.shift
        \/ n = "CTRL" /\ wayland_mods.ctrl
        \/ n = "ALT" /\ wayland_mods.alt}

KeyEventTypes == {"KeyPressed", "KeyReleased"}

\* C21: update_modifiers replaces the whole modifier set.  After an
\* update_modifiers callback the stored set is exactly the flagged one, and
\* no other callback changes it; from any reachable translator state the
\* result of an update does not depend on the set stored before, so the same
\* update applied twice equals it applied once; and every key event a
\* callback queues carries exactly the stored set.
C21_ModifiersReplaced ==
    /\ [][/\ call'.op = "update_modifiers" =>
                surface'.input_state.modifiers = FlaggedModifiers(call'.arg)
          /\ call'.op # "update_modifiers" =>
                surface'.input_state.modifiers = surface.input_state.modifiers
         ]_vars
    /\ [](/\ \A m1 \in KeyboardModifiers, m2 \in KeyboardModifiers :
               /\ input_update_modifiers(
                     input_update_modifiers(surface.input_state, m1), m2)
                  = input_update_modifiers(surface.input_state, m2)
               /\ input_update_modifiers(surface.input_state, m2).modifiers
                  = FlaggedModifiers(m2)
          /\ \A k \in DOMAIN pushed :
               pushed[k].type \in KeyEventTypes =>
                  pushed[k].modifiers = surface.input_state.modifiers)

C21_Witness ==
    /\ call.op = "press_key"
    /\ surface.input_state.modifiers = {"SHIFT", "ALT"}
    /\ Len(pushed) = 1
    /\ pushed[1].type = "KeyPressed"
    /\ pushed[1].modifiers = {"SHIFT", "ALT"}

\* raw scan codes (KeyEvent.raw_code)
SampleRawCodes == {0, 36, 38, 49, 54, 244}

\* Code:: variants the physical-key table gives some of the sampled symbols
SamplePhysicalCodes ==
    {<<"c", "KeyC">>, <<"x", "KeyX">>, <<"v", "KeyV">>, <<"a", "KeyA">>,
     <<"X", "KeyX">>, <<"Return", "Enter">>, <<"KP_Enter", "NumpadEnter">>,
     <<"Shift_L", "ShiftLeft">>, <<"BackSpace", "Backspace">>,
     <<"Escape", "Escape">>, <<"F35", "F35">>, <<"_1", "Digit1">>}

\* C22: for a key symbol the physical-key table does not map, the physical
\* key is the unidentified value carrying exactly the raw scan code; for a
\* mapped symbol it is a code that depends on the symbol only; the event a
\* key callback queues carries that physical key.
C22_PhysicalKey ==
    /\ \A keysym \in SampleKeysyms :
          \/ \A raw_code \in SampleRawCodes :
                keysym_to_physical_key(keysym, raw_code)
                = [code |-> "Unidentified", xkb |-> raw_code]
          \/ \A r1 \in SampleRawCodes, r2 \in SampleRawCodes :
                /\ keysym_to_physical_key(keysym, r1).code # "Unidentified"
                /\ keysym_to_physical_key(keysym, r1)
                   = keysym_to_physical_key(keysym, r2)
    /\ \A p \in SamplePhysicalCodes, raw_code \in SampleRawCodes :
          keysym_to_physical_key(p[1], raw_code).code = p[2]
    /\ \A keysym \in {"dead_grave", "XF86_Battery", "NoSymbol", "ssharp"},
          raw_code \in SampleRawCodes :
          keysym_to_physical_key(keysym, raw_code)
          = [code |-> "Unidentified", xkb |-> raw_code]
    /\ call.op \in {"press_key", "release_key", "repeat_key"} =>
          /\ Len(pushed) = 1
          /\ \A p \in SamplePhysicalCodes :
                p[1] = call.arg.keysym => pushed[1].physical_key.code = p[2]
          /\ call.arg.keysym \notin {p[1] : p \in SamplePhysicalCodes} =>
                pushed[1].physical_key
                = [code |-> "Unidentified", xkb |-> call.arg.raw_code]

C22_Witness ==
    /\ call.op = "release_key"
    /\ call.arg.keysym = "XF86_Battery"
    /\ Len(pushed) = 1
    /\ pushed[1].physical_key = [code |-> "Unidentified", xkb |-> 244]

\* the wheel-scroll event for discrete deltas (horizontal, vertical)
WheelScrolled(horizontal, vertical) ==
    [type |-> "WheelScrolled",
     delta |-> [unit |-> "Lines", x |-> as_f32(horizontal), y |-> as_f32(vertical)]]

\* the integers an f32 holds exactly in the representation [m, e] with e = 0
ExactInF32(d) == -16777216 <= d /\ d <= 16777216

\* what an axis sub-event adds to the queue
AxisQueued(event) ==
    IF event.horizontal.discrete = 0 /\ event.vertical.discrete = 0
    THEN <<>>
    ELSE <<WheelScrolled(event.horizontal.discrete, event.vertical.discrete)>>

\* C23: scroll suppression.  An axis sub-event queues exactly one
\* wheel-scroll event, in line units whose deltas are the discrete deltas
\* (converted to f32, which is exact up to 2^24 in magnitude), when at least
\* one discrete delta is non-zero, and queues nothing when both are zero,
\* whatever the continuous deltas; discrete (0,0) gives no event and (0,1)
\* exactly one.
C23_ScrollSuppression ==
    /\ call.op = "pointer_frame" /\ call.arg.kind = "Axis" =>
          /\ pushed = AxisQueued(call.arg)
          /\ Len(pushed) =
                IF call.arg.horizontal.discrete # 0 \/ call.arg.vertical.discrete # 0
                THEN 1 ELSE 0
          /\ \A k \in DOMAIN pushed :
                /\ pushed[k].delta.unit = "Lines"
                /\ ExactInF32(call.arg.horizontal.discrete) =>
                      pushed[k].delta.x = [m |-> call.arg.horizontal.discrete, e |-> 0]
                /\ ExactInF32(call.arg.vertical.discrete) =>
                      pushed[k].delta.y = [m |-> call.arg.vertical.discrete, e |-> 0]
    /\ \A event \in AxisEvents,
          absolute \in {AxisScroll(0, 0), AxisScroll(15, 0), AxisScroll(-30, 0)} :
          /\ input_handle_pointer_event(surface.input_state, event)
             = [surface.input_state EXCEPT !.events = @ \o AxisQueued(event)]
          /\ input_handle_pointer_event(surface.input_state,
                [event EXCEPT !.horizontal.absolute = absolute.absolute]).events
             = input_handle_pointer_event(surface.input_state, event).events
    /\ input_handle_pointer_event(surface.input_state,
          PointerEvent("Axis", 0, AxisScroll(0, 0), AxisScroll(0, 0))).events
       = surface.input_state.events
    /\ input_handle_pointer_event(surface.input_state,
          PointerEvent("Axis", 0, AxisScroll(0, 0), AxisScroll(0, 1))).events
       = Append(surface.input_state.events,
                [type |-> "WheelScrolled",
                 delta |-> [unit |-> "Lines", x |-> [m |-> 0, e |-> 0],
                            y |-> [m |-> 1, e |-> 0]]])

C23_Witness ==
    /\ call.op = "pointer_frame"
    /\ call.arg.kind = "Axis"
    /\ call.arg.horizontal = AxisScroll(-30, -2)
    /\ call.arg.vertical = NoScroll
    /\ pushed = << [type |-> "WheelScrolled",
                    delta |-> [unit |-> "Lines", x |-> [m |-> -2, e |-> 0],
                               y |-> [m |-> 0, e |-> 0]]] >>
    /\ ~panicked
    /\ batches = << pushed \o <<RedrawRequested>> >>

\* the continuous-only case of C23: movement without a discrete step
C23_WitnessSuppressed ==
    /\ call.op = "pointer_frame"
    /\ call.arg.kind = "Axis"
    /\ call.arg.horizontal = AxisScroll(15, 0)
    /\ call.arg.vertical = AxisScroll(-30, 0)
    /\ pushed = <<>>
    /\ batches = << <<RedrawRequested>> >>

\* the abstract button of a recognized code
RecognizedButtons ==
    {<<BTN_LEFT, "Left">>, <<BTN_RIGHT, "Right">>, <<BTN_MIDDLE, "Middle">>}

\* what a button sub-event adds to the queue
ButtonQueued(event) ==
    { <<[type |-> IF event.kind = "Press" THEN "ButtonPressed"
                  ELSE "ButtonReleased",
         button |-> p[2]]>> : p \in {r \in RecognizedButtons : r[1] = event.button} }

\* C24: a pointer button press or release queues exactly one button event
\* when the code is 0x110 (left), 0x111 (right) or 0x112 (middle), and for
\* any other code queues nothing and leaves the translator as it was.
C24_ButtonCodes ==
    /\ BTN_LEFT = 272 /\ BTN_RIGHT = 273 /\ BTN_MIDDLE = 274
    /\ call.op = "pointer_frame" /\ call.arg.kind \in {"Press", "Release"} =>
          IF call.arg.button \in {272, 273, 274}
          THEN /\ ButtonQueued(call.arg) = {pushed}
               /\ Len(pushed) = 1
          ELSE pushed = <<>>
    /\ \A event \in ButtonEvents :
          IF event.button \in {272, 273, 274}
          THEN \E q \in ButtonQueued(event) :
                  input_handle_pointer_event(surface.input_state, event)
                  = [surface.input_state EXCEPT !.events = @ \o q]
          ELSE input_handle_pointer_event(surface.input_state, event)
               = surface.input_state

C24_Witness ==
    /\ call.op = "pointer_frame"
    /\ call.arg.kind = "Press"
    /\ call.arg.button = 272
    /\ pushed = << [type |-> "ButtonPressed", button |-> "Left"] >>
    /\ batches = << pushed \o <<RedrawRequested>> >>

\* the unrecognized-code case of C24
C24_WitnessIgnored ==
    /\ call.op = "pointer_frame"
    /\ call.arg.kind = "Press"
    /\ call.arg.button = 275
    /\ pushed = <<>>
    /\ batches = << <<RedrawRequested>> >>

\* the configure callbacks of the Application and the window kind each serves
AppConfigureKind(op) ==
    CASE op = "layer_configure" -> "LayerSurface"
      [] op = "window_configure" -> "Window"

\* the size a configure callback of the Application asks for
AppRequestedSize(cb) ==
    CASE cb.op = "layer_configure" -> cb.arg.new_size
      [] cb.op = "window_configure" ->
            <<map_or(cb.arg.new_size[1], 256), map_or(cb.arg.new_size[2], 256)>>

\* the tracked windows a configure callback is meant for
Matching(windows, cb) ==
    {j \in DOMAIN windows :
        /\ windows[j].kind = AppConfigureKind(cb.op)
        /\ windows[j].surface = cb.arg.surface}

\* C25: routing by identity.  A configure callback of the Application
\* changes the size and buffer of exactly the tracked window whose kind and
\* surface identity match the event, and leaves every other tracked window
\* as it was; if no tracked window matches it changes nothing, sends no
\* request and raises no error.
C25_RoutedByIdentity ==
    [][call'.op \in {"layer_configure", "window_configure"} =>
        /\ Len(application'.windows) = Len(application.windows)
        /\ \A j \in DOMAIN application.windows :
              IF j \in Matching(application.windows, call')
              THEN /\ application'.windows[j].width = AppRequestedSize(call')[1]
                   /\ application'.windows[j].height = AppRequestedSize(call')[2]
                   /\ application'.windows[j].kind = application.windows[j].kind
                   /\ application'.windows[j].surface
                      = application.windows[j].surface
                   /\ ~panicked' =>
                         application'.windows[j].buffer
                         = Some([width |-> AppRequestedSize(call')[1],
                                 height |-> AppRequestedSize(call')[2],
                                 stride |->
                                    wrapping_mul(AppRequestedSize(call')[1], 4)])
              ELSE application'.windows[j] = application.windows[j]
        /\ Matching(application.windows, call') = {} =>
              /\ application' = application
              /\ fx' = <<>>
              /\ ~panicked'
        /\ \A k \in DOMAIN fx' :
              "surface" \in DOMAIN fx'[k] => fx'[k].surface = call'.arg.surface
     ]_vars

C25_Witness ==
    /\ call.op = "layer_configure"
    /\ ~panicked
    /\ Len(application.windows) = 2
    /\ application.windows[1] = WaylandWindow_new("Window", 1)
    /\ application.windows[2].kind = "LayerSurface"
    /\ application.windows[2].surface = call.arg.surface
    /\ application.windows[2].width = 300
    /\ application.windows[2].height = 200
    /\ application.windows[2].buffer
       = Some([width |-> 300, height |-> 200, stride |-> 1200])

\* the overflow case of C25 in a build without overflow checks: the pool
\* size and the stride wrap, and the window takes the size and the buffer
C25_WitnessWrapped ==
    /\ call.op = "layer_configure"
    /\ call.arg.new_size = OverflowingSize
    /\ ~overflow_checks
    /\ ~panicked
    /\ application.pool = Some([hi |-> 2, lo |-> -4])
    /\ \E j \in DOMAIN application.windows :
          /\ application.windows[j].surface = call.arg.surface
          /\ application.windows[j].width = 1073741825
          /\ application.windows[j].buffer
             = Some([width |-> 1073741825, height |-> -1, stride |-> 4])

\* the overflow case of C25 in a build with overflow checks: the window has
\* taken the size when the stride panics, and nothing was sent
C25_WitnessOverflowPanic ==
    /\ call.op = "layer_configure"
    /\ call.arg.new_size = OverflowingSize
    /\ overflow_checks
    /\ panicked
    /\ fx = <<>>
    /\ is_some(application.pool)
    /\ \E j \in DOMAIN application.windows :
          /\ application.windows[j].surface = call.arg.surface
          /\ application.windows[j].width = 1073741825
          /\ application.windows[j].buffer
             = Some([width |-> 300, height |-> 200, stride |-> 1200])

\* the no-match case of C25: an event for a surface of the other kind
C25_WitnessNoMatch ==
    /\ call.op = "layer_configure"
    /\ Len(application.windows) = 1
    /\ application.windows[1] = WaylandWindow_new("Window", call.arg.surface)
    /\ fx = <<>>
    /\ ~panicked

\* the requests of the last handler that destroy a protocol object
Destroyed == {fx[k].surface : k \in {j \in DOMAIN fx : fx[j].op = "destroy"}}

\* C26: after any sequence of create and remove operations the Application
\* tracks at most one window per surface identity, and a tracked window
\* leaves the registry and is destroyed only in close_window: no configure,
\* input, frame, closed or request_close callback removes or destroys one.
C26_OnePerIdentity ==
    /\ [](/\ \A i \in DOMAIN application.windows, j \in DOMAIN application.windows :
               application.windows[i].surface = application.windows[j].surface
               => i = j
          /\ Destroyed # {} => call.op = "close_window"
          /\ Destroyed \cap TrackedSurfaces(application) = {})
    /\ [][/\ call'.op # "close_window" =>
                TrackedSurfaces(application) \subseteq TrackedSurfaces(application')
          /\ call'.op = "close_window" =>
                IF call'.arg < Len(application.windows)
                THEN /\ TrackedSurfaces(application')
                        = TrackedSurfaces(application)
                          \ {application.windows[call'.arg + 1].surface}
                     /\ fx' = <<[op |-> "destroy",
                                 surface |-> application.windows[call'.arg + 1].surface]>>
                     /\ Len(application'.windows) = Len(application.windows) - 1
                ELSE application' = application /\ fx' = <<>>
          /\ call'.op \in {"create_layer_surface", "create_xdg_window"} =>
                /\ call'.arg \notin TrackedSurfaces(application)
                /\ Len(application'.windows) = Len(application.windows) + 1
                /\ application'.windows[Len(application'.windows)].surface
                   = call'.arg
         ]_vars

C26_Witness ==
    /\ call = Callback("close_window", 0)
    /\ fx = <<[op |-> "destroy", surface |-> 1]>>
    /\ Len(application.windows) = 1
    /\ application.windows[1].surface = 2

\* an identity given out again after its window was removed
C26_WitnessReused ==
    /\ call = Callback("create_xdg_window", 1)
    /\ Len(application.windows) = 2
    /\ application.windows[1].surface = 2
    /\ application.windows[2].surface = 1

\* the translator the Application uses for its tracked window j: the
\* Application has one field input_state, whatever the window
TranslatorOf(a, j) == a.input_state

\* C28: input-translator state is owned per surface: a configure or input
\* event dispatched for one tracked surface never changes the translator
\* (queue, modifiers, pointer position, screen size) used for another.
C28_TranslatorPerSurface ==
    [][call'.op \in {"layer_configure", "window_configure"} =>
        \A j \in DOMAIN application.windows :
            j \notin Matching(application.windows, call') =>
                TranslatorOf(application', j) = TranslatorOf(application, j)
     ]_vars

(* C29 *)

\* the terminal notification of each kind: closed for a layer surface,
\* done for a popup
TerminalNotification(k, op) ==
    \/ k = "LayerSurface" /\ op = "closed"
    \/ k = "Popup" /\ op = "done"

\* C29: a terminal notification (closed for a layer surface, done for a
\* popup) marks the receiving container as eligible for removal: the
\* container it is delivered to is left in a state that differs from the
\* state it was in before the notification.
C29_TerminalMarks ==
    [][(call' # call /\ TerminalNotification(kind, call'.op))
        => surface' # surface]_vars

(* C30 *)

\* the part of IcedSurfaceState a configure settles: logical size, scale
\* factor, presentation configuration, the translator's screen size
RenderSurfaceState(s) ==
    <<s.width, s.height, s.scale_factor, s.surface_config,
      s.input_state.screen_width, s.input_state.screen_height>>

\* the container after one more delivery of the configure payload cfg
Configured(s, cfg, env) == Dispatch(kind, Run(s), Callback("configure", cfg), env)

\* C30: configure is idempotent on state: from every reachable container
\* state, applying the same configure payload twice in a row leaves the
\* logical width and height, the scale factor, the presentation
\* configuration and the translator's screen size equal to what they are
\* after applying it once.
C30_ConfigureIdempotent ==
    \A cfg \in GeometryInputs.configures[kind], env1, env2 \in GeometryInputs.envs :
        LET once == Configured(surface, cfg, env1)
            twice == Configured(once.s, cfg, env2)
        IN (~panicked /\ ~once.panicked /\ ~twice.panicked)
            => RenderSurfaceState(twice.s) = RenderSurfaceState(once.s)

\* a configure has just been applied to a container whose size it changed
\* from the constructed one, and applying it again changes nothing
C30_Witness ==
    /\ ~panicked
    /\ call.op = "configure"
    /\ surface.surface_config # None
    /\ <<surface.width, surface.height>> \notin GeometryInputs.sizes
    /\ \E env \in GeometryInputs.envs :
          /\ ~Configured(surface, call.arg, env).panicked
          /\ RenderSurfaceState(Configured(surface, call.arg, env).s)
                = RenderSurfaceState(surface)

(* C27 *)

\* the removal of the container was requested while the call in flight ran
RemovedInFlight ==
    /\ shared.inflight # <<>>
    /\ shared.inflight[Len(shared.inflight)].removal
    /\ ~panicked

C27_WitnessReentry ==
    /\ panicked
    /\ shared.borrowed
    /\ Len(shared.inflight) = 1

(* C31 *)

\* C31: a render pass never runs while the presentation configuration is
\* absent: whenever the last handler went to acquire a texture, the
\* surface's first configure has already set surface_config.
C31_NoRenderBeforeConfigure ==
    \A k \in DOMAIN fx :
        fx[k].op = "get_current_texture" => is_some(surface.surface_config)

(* C32 *)

\* C32: at most one frame-callback request is outstanding per surface at
\* any time.
C32_OneFrameRequest == pending <= 1

(* C33 *)

\* C33: every buffer-scale value the last handler sent to the protocol layer
\* is at least 1 and equals the scale factor stored in the surface state
\* after the call.
C33_BufferScaleClamped ==
    \A k \in DOMAIN fx :
        fx[k].op = "set_buffer_scale"
            => fx[k].scale >= 1 /\ fx[k].scale = surface.scale_factor

(* C34 *)

\* what a render pass logs after the texture is acquired
RenderPassOps ==
    {"build", "update", "app_update", "set_cursor", "draw", "renderer_present",
     "texture_present", "frame", "commit"}

\* the last handler's render pass failed to acquire the texture
AcquireFailed ==
    \E k \in DOMAIN fx : fx[k] = [op |-> "get_current_texture", ok |-> FALSE]

\* C34: if acquiring the presentable texture fails, the render pass ends at
\* that point: the failed acquisition is the last thing the handler did, the
\* events the handler queued are still in the input queue, the UI was not
\* built, updated or drawn, nothing was presented, and no frame callback was
\* requested (the count of outstanding requests only loses the callback that
\* was being delivered).
C34_AcquireFailureStops ==
    /\ [](AcquireFailed =>
            /\ fx[Len(fx)] = [op |-> "get_current_texture", ok |-> FALSE]
            /\ \A k \in DOMAIN fx : fx[k].op \notin RenderPassOps
            /\ batches = <<>>
            /\ Len(pushed) <= Len(surface.input_state.events)
            /\ SubSeq(surface.input_state.events,
                      Len(surface.input_state.events) - Len(pushed) + 1,
                      Len(surface.input_state.events)) = pushed)
    /\ [][(~panicked /\ panicked')
            => /\ pending' = pending - (IF call'.op = "frame" THEN 1 ELSE 0)
               /\ Len(surface'.input_state.events)
                    = Len(surface.input_state.events) + Len(pushed')]_vars

\* a configured surface fails to give a texture in a handler that had just
\* queued an input event
C34_Witness ==
    /\ panicked
    /\ AcquireFailed
    /\ is_some(surface.surface_config)
    /\ pushed # <<>>
    /\ surface.input_state.events # <<>>

(* C35 *)

\* max(1, logical size x max(1, scale factor)), saturating in 32 bits
PhysicalSize(logical, scale_factor) ==
    u32_max(saturating_mul(logical, as_u32(max(scale_factor, 1))), 1)

\* C35: whenever the presentation configuration is present, its physical
\* width and height equal max(1, logical size x max(1, scale factor)) with
\* saturating 32-bit multiplication, and the viewport of each render pass of
\* the last handler has exactly those physical dimensions.
C35_PhysicalSize ==
    is_some(surface.surface_config) =>
        /\ unwrap(surface.surface_config).width
              = PhysicalSize(surface.width, surface.scale_factor)
        /\ unwrap(surface.surface_config).height
              = PhysicalSize(surface.height, surface.scale_factor)
        /\ \A k \in DOMAIN fx :
              fx[k].op = "renderer_present" =>
                  /\ fx[k].width = unwrap(surface.surface_config).width
                  /\ fx[k].height = unwrap(surface.surface_config).height

(* C36 *)

\* C36: the translator's screen size equals the surface state's logical
\* width and height in every reachable state, the state right after
\* construction included.
C36_ScreenSizeInSync ==
    /\ surface.input_state.screen_width = surface.width
    /\ surface.input_state.screen_height = surface.height

(* C37 *)

\* the sub-event kinds that carry a position snapshot
StoresPosition(cb) == cb.op = "pointer_frame" /\ cb.arg.kind \in {"Enter", "Motion"}

\* what the claim says one pointer sub-event does to the translator i
PointerMapped(i, event) ==
    LET j == input_handle_pointer_event(i, event) IN
    CASE event.kind = "Enter" ->
            /\ j.pointer_pos = event.position
            /\ j.events = Append(i.events, [type |-> "CursorEntered"])
      [] event.kind = "Motion" ->
            /\ j.pointer_pos = event.position
            /\ j.events = Append(i.events,
                                 [type |-> "CursorMoved",
                                  position |-> Point_new(event.position)])
      [] event.kind = "Leave" ->
            /\ j.pointer_pos = i.pointer_pos
            /\ j.events = Append(i.events, [type |-> "CursorLeft"])
      [] OTHER -> j.pointer_pos = i.pointer_pos

\* C37: enter stores the event position and queues one cursor-entered event;
\* motion stores the event position and queues one cursor-moved event at
\* that position (as an f32 point); leave queues one cursor-left event; and
\* leave, press, release and axis leave the stored position unchanged.  The
\* cursor passed to each render pass is the position of the most recent
\* enter or motion (as an f32 point): the position of the sub-event just
\* handled if it is an enter or a motion, else the position stored before,
\* which every other callback keeps.
C37_PointerMapping ==
    /\ [](\A event \in CursorEvents : PointerMapped(surface.input_state, event))
    /\ [][LET latest == IF StoresPosition(call') THEN call'.arg.position
                        ELSE surface.input_state.pointer_pos
          IN /\ surface'.input_state.pointer_pos = latest
             /\ \A k \in DOMAIN fx' :
                   fx'[k].op = "update" => fx'[k].cursor = Point_new(latest)]_vars

\* a press at another position is rendered with the cursor at the position
\* of the motion before it
C37_Witness ==
    /\ call.op = "pointer_frame"
    /\ call.arg.kind = "Press"
    /\ surface.input_state.pointer_pos = <<30, 40>>
    /\ call.arg.position # surface.input_state.pointer_pos
    /\ \E k \in DOMAIN fx :
          fx[k].op = "update" /\ fx[k].cursor = Point_new(<<30, 40>>)

\* a motion to a position an f32 cannot hold: the cursor-moved event and the
\* cursor are at the nearest f32, the stored position is exact
C37_WitnessRounded ==
    /\ call.op = "pointer_frame"
    /\ call.arg.position = <<16777217, 5>>
    /\ surface.input_state.pointer_pos = <<16777217, 5>>
    /\ \E k \in DOMAIN fx :
          fx[k].op = "update" /\ fx[k].cursor = Point_new(<<16777216, 5>>)

(* C38 *)

\* window lists to close a window of: the tracked windows (none, one or
\* two), and every list of three windows with distinct identities
WindowLists ==
    {application.windows}
    \cup {<<WaylandWindow_new("LayerSurface", p[1]),
            WaylandWindow_new("Window", p[2]),
            WaylandWindow_new("Window", p[3])>> :
            p \in {q \in SurfaceIds \X SurfaceIds \X SurfaceIds :
                      q[1] # q[2] /\ q[1] # q[3] /\ q[2] # q[3]}}

\* the Application tracking the windows w, about to handle a call
Tracking(w) == AppRun([application EXCEPT !.windows = w])

\* C38: close_window(index) with index below the number of tracked windows
\* removes exactly the window at that index, keeps the remaining windows in
\* their previous relative order and returns Some; with index out of range
\* it returns None and leaves the tracked windows unchanged.
C38_CloseWindow ==
    /\ [](\A w \in WindowLists, index \in 0..(Cardinality(SurfaceIds) + 1) :
          \A r \in {close_window(Tracking(w), index)} :
            IF index < Len(w)
            THEN /\ r.result # None
                 /\ r.app.windows
                       = SubSeq(w, 1, index) \o SubSeq(w, index + 2, Len(w))
            ELSE /\ r.result = None
                 /\ r.app.windows = w)
    /\ [][(call'.op = "close_window" /\ call' # call) =>
            application'.windows =
                IF call'.arg < Len(application.windows)
                THEN SubSeq(application.windows, 1, call'.arg)
                        \o SubSeq(application.windows, call'.arg + 2,
                                  Len(application.windows))
                ELSE application.windows]_vars

\* the first of two tracked windows was closed: the second is still tracked
\* and the first one's protocol object was destroyed
C38_Witness ==
    /\ call = Callback("close_window", 0)
    /\ Len(application.windows) = 1
    /\ \E k \in DOMAIN fx :
          /\ fx[k].op = "destroy"
          /\ fx[k].surface \notin TrackedSurfaces(application)
          /\ fx[k].surface < application.windows[1].surface

\* a close_window with an index out of range changed nothing
C38_WitnessOutOfRange ==
    /\ call = Callback("close_window", 2)
    /\ Len(application.windows) = 2
    /\ fx = <<>>

====
